---------------------------- MODULE Spec2Model ----------------------------
(***************************************************************************)
(* Model of the employee clean-up tool (python_app): the matching engine,  *)
(* the enrichment worker of ProcessingController, the user-interface       *)
(* operations that start, cancel and clear a run, and the data sorter.     *)
(*                                                                         *)
(* Text is modelled as sequences of one-character strings, a table cell as *)
(* a tagged value (missing / integer / text), a table as its ordered       *)
(* column labels plus its rows.                                            *)
(***************************************************************************)
EXTENDS Integers, Sequences, FiniteSets, TLC

(***************************************************************************)
(* Cell values.  pandas NaN and Python None are both "missing".            *)
(***************************************************************************)
NaN == [k |-> "nan", n |-> 0, s |-> <<>>]
IntV(i) == [k |-> "int", n |-> i, s |-> <<>>]
StrV(t) == [k |-> "str", n |-> 0, s |-> t]

\* pd.isna / pd.notna
IsNa(v) == v.k = "nan"
NotNa(v) == v.k # "nan"

(***************************************************************************)
(* Text helpers: str.lower, str.strip, str.split, str(int), int parsing.   *)
(***************************************************************************)
UpperChars == <<"A","B","C","D","E","F","G","H","I","J","K","L","M",
                "N","O","P","Q","R","S","T","U","V","W","X","Y","Z">>
LowerChars == <<"a","b","c","d","e","f","g","h","i","j","k","l","m",
                "n","o","p","q","r","s","t","u","v","w","x","y","z">>
DigitChars == <<"0","1","2","3","4","5","6","7","8","9">>

LowerChar(c) ==
    IF \E i \in 1..Len(UpperChars) : UpperChars[i] = c
    THEN LowerChars[CHOOSE i \in 1..Len(UpperChars) : UpperChars[i] = c]
    ELSE c

Lower(t) == [i \in 1..Len(t) |-> LowerChar(t[i])]

RECURSIVE LStrip(_)
LStrip(t) == IF t # <<>> /\ Head(t) = " " THEN LStrip(Tail(t)) ELSE t

RECURSIVE RStrip(_)
RStrip(t) ==
    IF t # <<>> /\ t[Len(t)] = " " THEN RStrip(SubSeq(t, 1, Len(t) - 1)) ELSE t

Strip(t) == RStrip(LStrip(t))

\* str.split(): the maximal runs of non-blank characters, in order
RECURSIVE SplitFrom(_, _, _)
SplitFrom(t, i, cur) ==
    IF i > Len(t) THEN (IF cur = <<>> THEN <<>> ELSE <<cur>>)
    ELSE IF t[i] = " "
         THEN (IF cur = <<>> THEN <<>> ELSE <<cur>>) \o SplitFrom(t, i + 1, <<>>)
         ELSE SplitFrom(t, i + 1, Append(cur, t[i]))

Split(t) == SplitFrom(t, 1, <<>>)

\* " ".join(parts)
RECURSIVE Join(_)
Join(parts) ==
    IF parts = <<>> THEN <<>>
    ELSE IF Len(parts) = 1 THEN parts[1]
    ELSE parts[1] \o <<" ">> \o Join(Tail(parts))

IsDigit(c) == \E i \in 1..10 : DigitChars[i] = c
DigitVal(c) == (CHOOSE i \in 1..10 : DigitChars[i] = c) - 1

\* str(i) for a natural number i
RECURSIVE NatToText(_)
NatToText(i) ==
    IF i < 10 THEN <<DigitChars[i + 1]>>
    ELSE Append(NatToText(i \div 10), DigitChars[(i % 10) + 1])

\* the number a run of decimal digits denotes
RECURSIVE DigitsToNat(_)
DigitsToNat(t) ==
    IF t = <<>> THEN 0
    ELSE 10 * DigitsToNat(SubSeq(t, 1, Len(t) - 1)) + DigitVal(t[Len(t)])

IsNumericText(t) ==
    LET u == Strip(t) IN u # <<>> /\ \A i \in 1..Len(u) : IsDigit(u[i])

\* str(value)
Str(v) ==
    IF v.k = "int" THEN NatToText(v.n)
    ELSE IF v.k = "str" THEN v.s
    ELSE <<"n","a","n">>

\* pd.to_numeric(value, errors='coerce'): a number, or missing
ToNumeric(v) ==
    IF v.k = "int" THEN v
    ELSE IF v.k = "str" /\ IsNumericText(v.s) THEN IntV(DigitsToNat(Strip(v.s)))
    ELSE NaN

\* str(int(emp_num)) if pd.notna(emp_num) else None
NumericText(v) ==
    LET num == ToNumeric(v) IN
    IF NotNa(num) THEN StrV(NatToText(num.n)) ELSE NaN


(***************************************************************************)
(* Scores.  fuzz.ratio and fuzz.partial_ratio return integers, the         *)
(* component score of _calculate_name_order_score is the float             *)
(* (matching_parts / total_parts) * 100; a score is kept as a fraction in  *)
(* lowest terms so that comparisons are exact.                             *)
(***************************************************************************)
RECURSIVE Gcd(_, _)
Gcd(a, b) == IF b = 0 THEN a ELSE Gcd(b, a % b)

Frac(p, q) == LET g == Gcd(p, q) IN
    IF p = 0 THEN [num |-> 0, den |-> 1] ELSE [num |-> p \div g, den |-> q \div g]
Pct(i) == [num |-> i, den |-> 1]

ScoreLt(x, y) == x.num * y.den < y.num * x.den
ScoreLe(x, y) == x.num * y.den <= y.num * x.den
ScoreMax(x, y) == IF ScoreLt(x, y) THEN y ELSE x

\* int(round(p / q)): Python rounds a half to the even neighbour
RoundDiv(p, q) ==
    LET d == p \div q
        r == p % q
    IN  IF 2 * r < q THEN d
        ELSE IF 2 * r > q THEN d + 1
        ELSE IF d % 2 = 0 THEN d ELSE d + 1

(***************************************************************************)
(* difflib.SequenceMatcher, which fuzzywuzzy's ratio and partial_ratio     *)
(* are built on (positions are 1-based here, ranges inclusive).            *)
(***************************************************************************)
RECURSIVE RunLen(_, _, _, _, _, _)
RunLen(a, b, i, j, ahi, bhi) ==
    IF i > ahi \/ j > bhi THEN 0
    ELSE IF a[i] # b[j] THEN 0
    ELSE 1 + RunLen(a, b, i + 1, j + 1, ahi, bhi)

\* the block lengths found from each pair of start positions
RunLens(a, b, alo, ahi, blo, bhi) ==
    [p \in (alo..ahi) \X (blo..bhi) |-> RunLen(a, b, p[1], p[2], ahi, bhi)]

MaxRunLen(lens) ==
    CHOOSE k \in {lens[p] : p \in DOMAIN lens} : \A p \in DOMAIN lens : lens[p] <= k

\* the earliest start in a, then in b, among the start pairs in hits
EarliestHit(hits) ==
    CHOOSE p \in hits : \A q \in hits : p[1] < q[1] \/ (p[1] = q[1] /\ p[2] <= q[2])

BlockAt(p, best) == <<p[1], p[2], best>>

LongestIn(lens, best) == BlockAt(EarliestHit({p \in DOMAIN lens : lens[p] = best}), best)

LongestOf(lens) == LongestIn(lens, MaxRunLen(lens))

\* find_longest_match: the longest common block, earliest in a, then in b,
\* as <<i, j, size>>
LongestMatch(a, b, alo, ahi, blo, bhi) == LongestOf(RunLens(a, b, alo, ahi, blo, bhi))

\* get_matching_blocks: the block found, then the blocks left and right of it
RECURSIVE MatchingBlocks(_, _, _, _, _, _)
BlocksAround(a, b, alo, ahi, blo, bhi, m) ==
    IF m[3] = 0 THEN {}
    ELSE {m} \cup MatchingBlocks(a, b, alo, m[1] - 1, blo, m[2] - 1)
             \cup MatchingBlocks(a, b, m[1] + m[3], ahi, m[2] + m[3], bhi)

MatchingBlocks(a, b, alo, ahi, blo, bhi) ==
    IF alo > ahi \/ blo > bhi THEN {}
    ELSE BlocksAround(a, b, alo, ahi, blo, bhi, LongestMatch(a, b, alo, ahi, blo, bhi))

RECURSIVE SumLen(_)
SumLen(blocks) ==
    IF blocks = {} THEN 0
    ELSE LET m == CHOOSE x \in blocks : TRUE IN m[3] + SumLen(blocks \ {m})

\* the number of matched characters M of SequenceMatcher.ratio() = 2*M/T
Matches(a, b) == SumLen(MatchingBlocks(a, b, 1, Len(a), 1, Len(b)))

\* utils.intr(100 * SequenceMatcher(None, a, b).ratio())
SeqRatio(a, b) ==
    IF Len(a) + Len(b) = 0 THEN 100
    ELSE RoundDiv(200 * Matches(a, b), Len(a) + Len(b))

\* fuzz.ratio
fuzz_ratio(s1, s2) ==
    IF s1 = s2 THEN 100
    ELSE IF Len(s1) = 0 \/ Len(s2) = 0 THEN 0
    ELSE SeqRatio(s1, s2)

MaxOf(scores) == CHOOSE x \in scores : \A y \in scores : y <= x
Max2(x, y) == IF x >= y THEN x ELSE y
Min2(x, y) == IF x <= y THEN x ELSE y

\* the window of the longer text that block m lines the shorter text up with
Window(shorter, longer, m) ==
    SubSeq(longer, Max2(m[2] - m[1], 0) + 1,
           Min2(Max2(m[2] - m[1], 0) + Len(shorter), Len(longer)))

PartialOf(shorter, longer) ==
    MaxOf({SeqRatio(shorter, Window(shorter, longer, m)) :
              m \in MatchingBlocks(shorter, longer, 1, Len(shorter), 1, Len(longer))
                    \cup {<<Len(shorter) + 1, Len(longer) + 1, 0>>}})

\* fuzz.partial_ratio: the shorter text against the window of the longer one
\* that each matching block (and the closing empty block) lines up with
fuzz_partial_ratio(s1, s2) ==
    IF s1 = s2 THEN 100
    ELSE IF Len(s1) = 0 \/ Len(s2) = 0 THEN 0
    ELSE IF Len(s1) <= Len(s2) THEN PartialOf(s1, s2) ELSE PartialOf(s2, s1)

(***************************************************************************)
(* MatchingEngine._calculate_name_order_score                              *)
(***************************************************************************)
CommaJoin(x, y) == x \o <<",", " ">> \o y
SpaceJoin(x, y) == x \o <<" ">> \o y

\* a faulty Method 1, used to test the properties below: the names are
\* compared as they stand
ReversedOrderScoreAsIs(name1, name2, parts1, parts2) == fuzz_ratio(name1, name2)

\* Method 1: "First Last" against "Last, First"
ReversedOrderScore(name1, name2, parts1, parts2) ==
    Max2(fuzz_ratio(name1, CommaJoin(parts2[Len(parts2)], parts2[1])),
         fuzz_ratio(CommaJoin(parts1[Len(parts1)], parts1[1]), name2))

\* one split point: "first last" of one name against "last, first" of the other
SplitScore(name1_first, name1_last, name2_first, name2_last) ==
    Max2(fuzz_ratio(SpaceJoin(name1_first, name1_last),
                    CommaJoin(name2_last, name2_first)),
         fuzz_ratio(CommaJoin(name1_last, name1_first),
                    SpaceJoin(name2_first, name2_last)))

\* Method 2: every split point of names with three or more parts
RECURSIVE SplitPointScore(_, _, _, _)
SplitPointScore(parts1, parts2, i, last) ==
    IF i > last THEN 0
    ELSE Max2(SplitScore(Join(SubSeq(parts1, 1, i)),
                         Join(SubSeq(parts1, i + 1, Len(parts1))),
                         Join(SubSeq(parts2, 1, i)),
                         Join(SubSeq(parts2, i + 1, Len(parts2)))),
              SplitPointScore(parts1, parts2, i + 1, last))

\* the parts of name1 that match some part of name2 with a ratio of 80 or more
MatchingParts(parts1, parts2) ==
    {i \in 1..Len(parts1) :
        \E j \in 1..Len(parts2) : fuzz_ratio(parts1[i], parts2[j]) >= 80}

\* "if len(part1) >= 3 and len(part2) >= 3 and fuzz.ratio(part1, part2) >= 80"
LongPartsMatch(parts1, parts2, matching) ==
    \E i \in matching, j \in 1..Len(parts2) :
        /\ Len(parts1[i]) >= 3 /\ Len(parts2[j]) >= 3
        /\ fuzz_ratio(parts1[i], parts2[j]) >= 80

ComponentOf(parts1, parts2, matching) ==
    IF LongPartsMatch(parts1, parts2, matching) /\ Cardinality(matching) >= 2
    THEN Frac(Cardinality(matching) * 100, Max2(Len(parts1), Len(parts2)))
    ELSE Pct(0)

\* Method 3: the share of parts of name1 that match some part of name2
ComponentScore(parts1, parts2) ==
    ComponentOf(parts1, parts2, MatchingParts(parts1, parts2))

NameOrderOf(name1, name2, parts1, parts2) ==
    IF Len(parts1) < 2 \/ Len(parts2) < 2 THEN Pct(0)
    ELSE ScoreMax(ScoreMax(Pct(ReversedOrderScore(name1, name2, parts1, parts2)),
                           IF Len(parts1) >= 3 \/ Len(parts2) >= 3
                           THEN Pct(SplitPointScore(parts1, parts2, 1,
                                        Min2(Len(parts1), Len(parts2)) - 1))
                           ELSE Pct(0)),
                  ComponentScore(parts1, parts2))

calculate_name_order_score(name1, name2) ==
    NameOrderOf(name1, name2, Split(name1), Split(name2))

\* final_score = max(score, partial_score, name_order_score)
FinalScore(current_name_clean, masterlist_name_clean) ==
    ScoreMax(ScoreMax(Pct(fuzz_ratio(current_name_clean, masterlist_name_clean)),
                      Pct(fuzz_partial_ratio(current_name_clean, masterlist_name_clean))),
             calculate_name_order_score(current_name_clean, masterlist_name_clean))

(***************************************************************************)
(* Tables (pandas DataFrames): ordered column labels and rows; a row is    *)
(* the sequence of its cells in column order.  A table that is None has    *)
(* present = FALSE.                                                        *)
(***************************************************************************)
NoTable == [present |-> FALSE, cols |-> <<>>, rows |-> <<>>]
MkTable(cols, rows) == [present |-> TRUE, cols |-> cols, rows |-> rows]

IsNone(df) == ~df.present
\* df.empty
IsEmpty(df) == Len(df.rows) = 0 \/ Len(df.cols) = 0

HasCol(df, col) == \E i \in 1..Len(df.cols) : df.cols[i] = col
ColIndex(df, col) == CHOOSE i \in 1..Len(df.cols) : df.cols[i] = col
\* df.loc[r, col] / row[col]
Cell(df, r, col) == df.rows[r][ColIndex(df, col)]

\* needle in hay
Contains(hay, needle) ==
    \E i \in 1..(Len(hay) - Len(needle) + 1) :
        SubSeq(hay, i, i + Len(needle) - 1) = needle

UpperChar(c) ==
    IF \E i \in 1..Len(LowerChars) : LowerChars[i] = c
    THEN UpperChars[CHOOSE i \in 1..Len(LowerChars) : LowerChars[i] = c]
    ELSE c
Upper(t) == [i \in 1..Len(t) |-> UpperChar(t[i])]

\* column labels and keywords the code names
L_PERNR        == <<"P","E","R","N","R">>
L_PersNumber   == <<"P","e","r","s","."," ","N","u","m","b","e","r">>
L_FullName     == <<"F","u","l","l"," ","N","a","m","e">>
L_Fullname     == <<"F","u","l","l","n","a","m","e">>
L_UserID       == <<"U","s","e","r"," ","I","D">>
K_name         == <<"n","a","m","e">>
K_employee     == <<"e","m","p","l","o","y","e","e">>
K_number       == <<"n","u","m","b","e","r">>

(***************************************************************************)
(* MatchingEngine: settings and name search                                *)
(***************************************************************************)
DefaultThreshold == 80
MinThreshold == 50
MaxThreshold == 100

\* MatchingEngine.__init__
NewEngine == [use_fuzzy_logic |-> TRUE, threshold |-> DefaultThreshold]

\* a faulty clamp, used to test the properties below: no upper limit
ClampBelowOnly(threshold) == Max2(MinThreshold, threshold)

\* self.threshold = max(50, min(100, threshold))
ClampThreshold(threshold) == Max2(MinThreshold, Min2(MaxThreshold, threshold))

\* MatchingEngine.update_settings
update_settings(eng, use_fuzzy_logic, threshold) ==
    [use_fuzzy_logic |-> use_fuzzy_logic, threshold |-> ClampThreshold(threshold)]

\* [col for col in df.columns if col == label]
WithLabel(df, label) == SelectSeq(df.cols, LAMBDA c : c = label)
\* [col for col in df.columns if keyword in str(col).lower()]
WithKeyword(df, keyword) == SelectSeq(df.cols, LAMBDA c : Contains(Lower(c), keyword))
\* [col for col in df.columns if any(keyword in str(col).lower() for keyword in keywords)]
WithAnyKeyword(df, keywords) ==
    SelectSeq(df.cols, LAMBDA c : \E keyword \in keywords : Contains(Lower(c), keyword))
\* [col for col in df.columns if str(col).upper() == label]
WithUpperLabel(df, label) == SelectSeq(df.cols, LAMBDA c : Upper(c) = label)
\* ... if 'employee' in str(col).lower() and 'number' in str(col).lower()
WithEmployeeNumber(df) ==
    SelectSeq(df.cols, LAMBDA c : Contains(Lower(c), K_employee)
                                  /\ Contains(Lower(c), K_number))

\* the first non-empty list of the lists tried in turn
OrElse(first, second) == IF first # <<>> THEN first ELSE second

\* the name column find_employee_by_name uses: "Full Name", else the first
\* column whose lower-cased label contains "name"; <<>> when there is none
NameColumns(df) == OrElse(WithLabel(df, L_FullName), WithKeyword(df, K_name))

\* the identifier column: upper-cased label "PERNR", else "Pers. Number",
\* else a label containing "employee" and "number"
EmpNumColumns(df) ==
    OrElse(WithUpperLabel(df, L_PERNR),
           OrElse(WithLabel(df, L_PersNumber), WithEmployeeNumber(df)))

NoMatch == [employee_number |-> NaN, full_name |-> NaN,
            match_type |-> "no_match", match_score |-> Pct(0)]

\* a faulty exact loop, used to test the properties below: it keeps the last
\* row whose name equals the query instead of stopping at the first
RECURSIVE ExactRowLast(_, _, _, _)
ExactRowLast(current_name_clean, df, name_col, r) ==
    IF r > Len(df.rows) THEN 0
    ELSE IF ExactRowLast(current_name_clean, df, name_col, r + 1) # 0
         THEN ExactRowLast(current_name_clean, df, name_col, r + 1)
         ELSE IF /\ NotNa(Cell(df, r, name_col))
                 /\ current_name_clean = Lower(Strip(Str(Cell(df, r, name_col))))
              THEN r ELSE 0

\* PRIORITY 1: the first row whose name equals the query (trimmed, lower-cased)
RECURSIVE ExactRow(_, _, _, _)
ExactRow(current_name_clean, df, name_col, r) ==
    IF r > Len(df.rows) THEN 0
    ELSE IF /\ NotNa(Cell(df, r, name_col))
            /\ current_name_clean = Lower(Strip(Str(Cell(df, r, name_col))))
         THEN r
         ELSE ExactRow(current_name_clean, df, name_col, r + 1)

NoBest == [best_score |-> Pct(0), best_match |-> NaN,
           best_employee_number |-> NaN, best_full_name |-> NaN, best_row |-> 0]

\* a faulty comparison, used to test the properties below: an equal score
\* replaces the best match
IsBetterOrEqual(final_score, best_score, threshold) ==
    ScoreLe(best_score, final_score) /\ ScoreLe(Pct(threshold), final_score)

\* a faulty comparison, used to test the properties below: the threshold is
\* not looked at
IsBetterAnyScore(final_score, best_score, threshold) ==
    ScoreLt(best_score, final_score)

\* final_score > best_score and final_score >= self.threshold
IsBetter(final_score, best_score, threshold) ==
    ScoreLt(best_score, final_score) /\ ScoreLe(Pct(threshold), final_score)

(***************************************************************************)
(* The texts the bounded inputs are built from.                            *)
(***************************************************************************)
T_AlBo  == <<"A","l"," ","B","o"," ">>
T_ALBO  == <<"A","L"," ","B","O">>
T_alby  == <<"a","l"," ","b","y">>
T_albx  == <<"a","l"," ","b","x">>
T_boal  == <<"b","o",","," ","a","l">>
T_alxbo == <<"a","l","x"," ","b","o">>
T_ABC   == <<"A","B","C">>
T_09    == <<"0","9">>

T_Al    == <<"A","l">>
T_Bo    == <<"B","o">>
T_Jared == <<"J","a","r","e","d">>
T_Ranjo == <<"R","a","n","j","o">>

\* the tokens two-part names are made of, and the names in both orders
NameTokens == {T_Al, T_Bo, T_Jared, T_Ranjo}
FirstLastNames == {SpaceJoin(a, b) : a \in NameTokens, b \in NameTokens}
LastFirstNames == {CommaJoin(b, a) : a \in NameTokens, b \in NameTokens}

NameTexts == {T_AlBo, T_ALBO, T_alby, T_albx, T_boal, T_alxbo}
             \cup FirstLastNames \cup LastFirstNames
CleanNames == {Lower(Strip(t)) : t \in NameTexts}

\* the scores of the pool's names, computed once by FinalScore
SimTable == [p \in CleanNames \X CleanNames |-> FinalScore(p[1], p[2])]

Similarity(current_name_clean, masterlist_name_clean) ==
    SimTable[<<current_name_clean, masterlist_name_clean>>]

\* lines 156-161: the row becomes the best match
BestAt(masterlist_name, final_score, emp_num, r) ==
    [best_score |-> final_score, best_match |-> StrV(masterlist_name),
     best_employee_number |-> NumericText(emp_num),
     best_full_name |-> StrV(masterlist_name), best_row |-> r]

\* lines 139-161 for one row with a name
ScoreRow(threshold, current_name_clean, masterlist_name, emp_num, r, best) ==
    IF IsBetter(Similarity(current_name_clean, Lower(masterlist_name)),
                best.best_score, threshold)
    THEN BestAt(masterlist_name, Similarity(current_name_clean, Lower(masterlist_name)),
                emp_num, r)
    ELSE best

\* PRIORITY 2: the fuzzy loop over all rows, from row r on
RECURSIVE FuzzyLoop(_, _, _, _, _, _, _)
FuzzyLoop(threshold, current_name_clean, df, name_col, emp_num_col, r, best) ==
    IF r > Len(df.rows) THEN best
    ELSE FuzzyLoop(threshold, current_name_clean, df, name_col, emp_num_col, r + 1,
                   IF IsNa(Cell(df, r, name_col)) THEN best
                   ELSE ScoreRow(threshold, current_name_clean,
                                 Strip(Str(Cell(df, r, name_col))),
                                 Cell(df, r, emp_num_col), r, best))

\* line 128: what the exact loop returns for the row it stops at
ExactResult(df, name_col, emp_num_col, hit) ==
    [employee_number |-> NumericText(Cell(df, hit, emp_num_col)),
     full_name |-> StrV(Str(Cell(df, hit, name_col))),
     match_type |-> "exact_match", match_score |-> Pct(100)]

\* lines 163-166
FuzzyResult(best) ==
    IF NotNa(best.best_employee_number)
    THEN [employee_number |-> best.best_employee_number,
          full_name |-> best.best_full_name,
          match_type |-> "fuzzy_match", match_score |-> best.best_score]
    ELSE NoMatch

Traced(result, phase, best) == [result |-> result, phase |-> phase, best |-> best]

FuzzyTrace(best) == Traced(FuzzyResult(best), "fuzzy", best)

\* a faulty search, used to test the properties below: the fuzzy loop runs
\* whether fuzzy matching is enabled or not
SearchFromAnyway(eng, current_name_clean, df, name_col, emp_num_col, hit) ==
    IF hit # 0
    THEN Traced(ExactResult(df, name_col, emp_num_col, hit), "exact", NoBest)
    ELSE FuzzyTrace(FuzzyLoop(eng.threshold, current_name_clean, df, name_col,
                              emp_num_col, 1, NoBest))

\* lines 121-166 once the columns are known and the exact loop has ended
\* (hit = 0: no row matched exactly)
SearchFrom(eng, current_name_clean, df, name_col, emp_num_col, hit) ==
    IF hit # 0
    THEN Traced(ExactResult(df, name_col, emp_num_col, hit), "exact", NoBest)
    ELSE IF ~eng.use_fuzzy_logic
    THEN Traced(NoMatch, "fuzzy_disabled", NoBest)
    ELSE FuzzyTrace(FuzzyLoop(eng.threshold, current_name_clean, df, name_col,
                              emp_num_col, 1, NoBest))

SearchColumns(eng, current_name_clean, df, name_col, emp_num_col) ==
    SearchFrom(eng, current_name_clean, df, name_col, emp_num_col,
               ExactRow(current_name_clean, df, name_col, 1))

\* MatchingEngine.find_employee_by_name, with the path taken ("phase") and the
\* state the fuzzy loop ended in ("best") kept beside the returned tuple
FindTrace(eng, current_name, masterlist_df) ==
    IF IsNone(masterlist_df) \/ IsEmpty(masterlist_df)
    THEN Traced(NoMatch, "empty", NoBest)
    ELSE IF NameColumns(masterlist_df) = <<>>
    THEN Traced(NoMatch, "no_name_column", NoBest)
    ELSE IF EmpNumColumns(masterlist_df) = <<>>
    THEN Traced(NoMatch, "no_pernr_column", NoBest)
    ELSE SearchColumns(eng, Lower(Strip(Str(current_name))), masterlist_df,
                       NameColumns(masterlist_df)[1], EmpNumColumns(masterlist_df)[1])

find_employee_by_name(eng, current_name, masterlist_df) ==
    FindTrace(eng, current_name, masterlist_df).result

(***************************************************************************)
(* MatchingEngine.is_valid_pernr                                           *)
(***************************************************************************)
InvalidIndicators == {
    <<"c","a","n","t"," ","f","i","n","d">>,
    <<"c","a","n","'","t"," ","f","i","n","d">>,
    <<"c","a","n","n","o","t"," ","f","i","n","d">>,
    <<"n","o","t"," ","f","o","u","n","d">>,
    <<"u","n","k","n","o","w","n">>,
    <<"n","/","a">>,
    <<"n","a">>,
    <<"n","u","l","l">>,
    <<"n","o","n","e">>,
    <<"e","m","p","t","y">>,
    <<"m","i","s","s","i","n","g">>,
    <<"e","r","r","o","r">>,
    <<"i","n","v","a","l","i","d">>,
    <<"i","n","v","a","l","i","d"," ","p","e","r","n","r">>,
    <<"n","o"," ","m","a","t","c","h">>,
    <<"n","o"," ","d","a","t","a">> }

is_valid_pernr(pernr_value) ==
    IF IsNa(pernr_value) THEN FALSE
    ELSE LET pernr_str == Strip(Str(pernr_value)) IN
         IF pernr_str = <<>> THEN FALSE
         ELSE Lower(pernr_str) \notin {Lower(x) : x \in InvalidIndicators}

(***************************************************************************)
(* ProcessingController: the columns of the enriched table                 *)
(***************************************************************************)
NoScore == [num |-> 0, den |-> 0]

\* initialize_new_columns: df[col] = None for the eleven new columns
NewColumns ==
    [PERNR |-> NaN, Full_Name |-> NaN, Full_Name_Source |-> "None",
     Resignation_Date |-> NaN, Position_Name |-> NaN, Segment_Name |-> NaN,
     Group_Name |-> NaN, Area_Division_Name |-> NaN, Department_Branch |-> NaN,
     Match_Type |-> "None", Match_Score |-> NoScore]

NoDf == [present |-> FALSE, cols |-> <<>>, rows |-> <<>>, out |-> <<>>]

\* the labels of the eleven columns, each with the field of "out" that holds
\* the column.  A column of the report that carries one of these labels IS
\* the new column: df[col] = None and df.at[idx, col] = value write into it
NewLabels ==
    << [label |-> <<"P","E","R","N","R">>,
        field |-> "PERNR"],
       [label |-> <<"F","u","l","l"," ","N","a","m","e"," ","(","F","r","o","m"," ","M","a","s","t","e","r","l","i","s","t",")">>,
        field |-> "Full_Name"],
       [label |-> <<"F","u","l","l"," ","N","a","m","e"," ","S","o","u","r","c","e">>,
        field |-> "Full_Name_Source"],
       [label |-> <<"R","e","s","i","g","n","a","t","i","o","n"," ","D","a","t","e">>,
        field |-> "Resignation_Date"],
       [label |-> <<"P","o","s","i","t","i","o","n"," ","N","a","m","e">>,
        field |-> "Position_Name"],
       [label |-> <<"S","e","g","m","e","n","t"," ","N","a","m","e">>,
        field |-> "Segment_Name"],
       [label |-> <<"G","r","o","u","p"," ","N","a","m","e">>,
        field |-> "Group_Name"],
       [label |-> <<"A","r","e","a","/","D","i","v","i","s","i","o","n"," ","N","a","m","e">>,
        field |-> "Area_Division_Name"],
       [label |-> <<"D","e","p","a","r","t","m","e","n","t","/","B","r","a","n","c","h">>,
        field |-> "Department_Branch"],
       [label |-> <<"M","a","t","c","h"," ","T","y","p","e">>,
        field |-> "Match_Type"],
       [label |-> <<"M","a","t","c","h"," ","S","c","o","r","e">>,
        field |-> "Match_Score"] >>

IsNewLabel(col) == \E k \in 1..Len(NewLabels) : NewLabels[k].label = col
FieldOf(col) == NewLabels[CHOOSE k \in 1..Len(NewLabels) : NewLabels[k].label = col].field

\* the texts of the match types and of the full-name sources
MatchTypeText(match_type) ==
    IF match_type = "user_id_match" THEN <<"u","s","e","r","_","i","d","_","m","a","t","c","h">>
    ELSE IF match_type = "exact_match" THEN <<"e","x","a","c","t","_","m","a","t","c","h">>
    ELSE IF match_type = "fuzzy_match" THEN <<"f","u","z","z","y","_","m","a","t","c","h">>
    ELSE <<"n","o","_","m","a","t","c","h">>

SourceText(source) ==
    IF source = "Current Masterlist" THEN <<"C","u","r","r","e","n","t"," ","M","a","s","t","e","r","l","i","s","t">>
    ELSE <<"R","e","s","i","g","n","e","d"," ","M","a","s","t","e","r","l","i","s","t">>

\* the cell that holds a value of the enrichment; a score is a float
OutCell(out, field) ==
    IF field = "Match_Type"
    THEN (IF out.Match_Type = "None" THEN NaN ELSE StrV(MatchTypeText(out.Match_Type)))
    ELSE IF field = "Full_Name_Source"
    THEN (IF out.Full_Name_Source = "None" THEN NaN
          ELSE StrV(SourceText(out.Full_Name_Source)))
    ELSE IF field = "Match_Score"
    THEN (IF out.Match_Score = NoScore THEN NaN
          ELSE [k |-> "float", n |-> out.Match_Score.num,
                s |-> NatToText(out.Match_Score.den)])
    ELSE out[field]

\* a row of the report once the enrichment "out" has been written: the
\* columns that carry a new label hold the enrichment, the others are kept
Written(cols, row, out) ==
    [c \in 1..Len(cols) |->
        IF IsNewLabel(cols[c]) THEN OutCell(out, FieldOf(cols[c])) ELSE row[c]]

initialize_new_columns(df) ==
    [present |-> TRUE, cols |-> df.cols,
     rows |-> [r \in 1..Len(df.rows) |-> Written(df.cols, df.rows[r], NewColumns)],
     out |-> [r \in 1..Len(df.rows) |-> NewColumns]]

(***************************************************************************)
(* ProcessingController.detect_lookup_columns                              *)
(***************************************************************************)
NoCol == <<>>
UserIdKeywords == {<<"u","s","e","r">>, <<"i","d">>, <<"s","y","s","i","d">>, <<"u","s","e","r","n","a","m","e">>, <<"a","b","b","r","e","v","i","a","t","i","o","n">>}

FirstOr(cols, none) == IF cols = <<>> THEN none ELSE cols[1]

\* a faulty resolution, used to test the properties below: the keyword pass
\* is tried before the exact label
UserIdColumnKeywordFirst(df) ==
    IF IsNone(df) THEN NoCol
    ELSE FirstOr(OrElse(WithAnyKeyword(df, UserIdKeywords), WithLabel(df, L_UserID)),
                 NoCol)

\* "User ID" exactly, else the first label containing a user-id keyword
UserIdColumn(df) ==
    IF IsNone(df) THEN NoCol
    ELSE FirstOr(OrElse(WithLabel(df, L_UserID), WithAnyKeyword(df, UserIdKeywords)),
                 NoCol)

\* [col ... if str(col).upper() == 'PERNR' or ('employee' in ... and 'number' in ...)]
PernrLike(df) ==
    SelectSeq(df.cols, LAMBDA c :
        \/ Upper(c) = L_PERNR
        \/ Contains(Lower(c), K_employee) /\ Contains(Lower(c), K_number))

\* "PERNR" exactly, else upper-cased "PERNR" or "employee" and "number"
PernrColumn(df) ==
    IF IsNone(df) THEN NoCol
    ELSE FirstOr(OrElse(WithLabel(df, L_PERNR), PernrLike(df)), NoCol)

detect_lookup_columns(current_df, previous_df) ==
    [user_id_current  |-> UserIdColumn(current_df),
     user_id_previous |-> UserIdColumn(previous_df),
     pernr_previous   |-> PernrColumn(previous_df)]

(***************************************************************************)
(* Lookups by identifier.  The identifier and the table's identifier       *)
(* column are both converted with pd.to_numeric before they are compared.  *)
(***************************************************************************)
\* the first row whose identifier cell is numerically equal to num; 0 if none
RECURSIVE NumericMatchRow(_, _, _, _)
NumericMatchRow(df, pernr_col, num, r) ==
    IF r > Len(df.rows) THEN 0
    ELSE IF ToNumeric(Cell(df, r, pernr_col)) = num THEN r
    ELSE NumericMatchRow(df, pernr_col, num, r + 1)

\* "if not employee_number": None or the empty text
IsFalsy(v) == IsNa(v) \/ (v.k = "str" /\ v.s = <<>>)

NoName == [full_name |-> NaN, source |-> "None"]

\* 'PERNR' if it is a column, else 'Pers. Number' if it is one
PernrOrPersNumber(df) ==
    IF HasCol(df, L_PERNR) THEN L_PERNR
    ELSE IF HasCol(df, L_PersNumber) THEN L_PersNumber
    ELSE NoCol

\* lines 305-309: the current list returns the name cell whatever it holds
CurrentNameAt(df, name_columns, hit) ==
    IF hit # 0
    THEN [found |-> TRUE, full_name |-> Cell(df, hit, name_columns[1]),
          source |-> "Current Masterlist"]
    ELSE [found |-> FALSE, full_name |-> NaN, source |-> "None"]

CurrentNameIn(num, df, pernr_col, name_columns) ==
    CurrentNameAt(df, name_columns,
                  IF pernr_col = NoCol \/ name_columns = <<>> THEN 0
                  ELSE NumericMatchRow(df, pernr_col, num, 1))

\* the "Try masterlist_current first" part of get_full_name_from_pernr:
\* found = TRUE when it returns
FullNameFromCurrent(num, masterlist_current_df) ==
    IF IsNone(masterlist_current_df)
    THEN [found |-> FALSE, full_name |-> NaN, source |-> "None"]
    ELSE CurrentNameIn(num, masterlist_current_df,
                       PernrOrPersNumber(masterlist_current_df),
                       NameColumns(masterlist_current_df))

\* the name column of the resigned list: "Fullname", "Full Name", "...name..."
ResignedNameColumns(df) ==
    OrElse(WithLabel(df, L_Fullname),
           OrElse(WithLabel(df, L_FullName), WithKeyword(df, K_name)))

\* lines 328-334: the resigned list returns only a name that is not blank
ResignedNameOf(full_name_value) ==
    IF NotNa(full_name_value) /\ Strip(Str(full_name_value)) # <<>>
    THEN [full_name |-> full_name_value, source |-> "Resigned Masterlist"]
    ELSE NoName

ResignedNameAt(df, name_columns, hit) ==
    IF hit = 0 THEN NoName ELSE ResignedNameOf(Cell(df, hit, name_columns[1]))

ResignedNameIn(num, df, name_columns) ==
    ResignedNameAt(df, name_columns,
                   IF name_columns = <<>> THEN 0
                   ELSE NumericMatchRow(df, L_PERNR, num, 1))

FullNameFromResigned(num, masterlist_resigned_df) ==
    IF IsNone(masterlist_resigned_df) \/ ~HasCol(masterlist_resigned_df, L_PERNR)
    THEN NoName
    ELSE ResignedNameIn(num, masterlist_resigned_df,
                        ResignedNameColumns(masterlist_resigned_df))

FullNameOr(cur, num, masterlist_resigned_df) ==
    IF cur.found THEN [full_name |-> cur.full_name, source |-> cur.source]
    ELSE FullNameFromResigned(num, masterlist_resigned_df)

\* a text pd.to_numeric reads as an infinite float
T_inf == <<"i","n","f">>
IsInfinite(v) == v.k = "str" /\ Lower(Strip(v.s)) = T_inf

\* lines 278-280: int(emp_num_numeric) raises OverflowError on an infinite
\* number, and nothing in the function or in the row loop catches it
FullNameRaises(employee_number) ==
    ~IsFalsy(employee_number) /\ IsInfinite(employee_number)

FullNameByNumber(num, masterlist_current_df, masterlist_resigned_df) ==
    IF IsNa(num) THEN NoName
    ELSE FullNameOr(FullNameFromCurrent(num, masterlist_current_df), num,
                    masterlist_resigned_df)

\* ProcessingController.get_full_name_from_pernr
get_full_name_from_pernr(employee_number, masterlist_current_df, masterlist_resigned_df) ==
    IF IsFalsy(employee_number) THEN NoName
    ELSE FullNameByNumber(ToNumeric(employee_number), masterlist_current_df,
                          masterlist_resigned_df)

\* the date/status column of the resigned list, by keyword priority
K_effectivity_report == <<"e","f","f","e","c","t","i","v","i","t","y"," ","f","r","o","m"," ","h","r"," ","s","e","p","a","r","a","t","i","o","n"," ","r","e","p","o","r","t">>
K_effectivity == <<"e","f","f","e","c","t","i","v","i","t","y">>
K_separation == <<"s","e","p","a","r","a","t","i","o","n">>
DateKeywords == {<<"r","e","s","i","g","n","a","t","i","o","n">>, <<"d","a","t","e">>, <<"e","n","d">>, <<"t","e","r","m","i","n","a","t","i","o","n">>, <<"e","x","i","t">>, <<"e","f","f","e","c","t","i","v","i","t","y">>, <<"s","e","p","a","r","a","t","i","o","n">>, <<"r","e","p","o","r","t">>}

\* ... if 'effectivity' in str(col).lower() and 'separation' in str(col).lower()
WithEffectivitySeparation(df) ==
    SelectSeq(df.cols, LAMBDA c : Contains(Lower(c), K_effectivity)
                                  /\ Contains(Lower(c), K_separation))

DateColumns(df) ==
    OrElse(WithKeyword(df, K_effectivity_report),
           OrElse(WithEffectivitySeparation(df), WithAnyKeyword(df, DateKeywords)))

\* the position of the i-th "/" of a text, 0 if there is none
RECURSIVE SlashAt(_, _, _)
SlashAt(t, from, i) ==
    IF from > Len(t) THEN 0
    ELSE IF t[from] = "/" THEN (IF i = 1 THEN from ELSE SlashAt(t, from + 1, i - 1))
    ELSE SlashAt(t, from + 1, i)

AllDigits(t) == t # <<>> /\ \A i \in 1..Len(t) : IsDigit(t[i])
Pad2(i) == IF i < 10 THEN <<"0">> \o NatToText(i) ELSE NatToText(i)

DateText(mm, dd, yy) ==
    IF ~(AllDigits(mm) /\ AllDigits(dd) /\ AllDigits(yy) /\ Len(yy) = 4) THEN <<>>
    ELSE IF ~(DigitsToNat(mm) \in 1..12 /\ DigitsToNat(dd) \in 1..28) THEN <<>>
    ELSE Pad2(DigitsToNat(mm)) \o <<"/">> \o Pad2(DigitsToNat(dd)) \o <<"/">> \o yy

DateParts(t, s1, s2) ==
    IF s1 = 0 \/ s2 = 0 THEN <<>>
    ELSE DateText(SubSeq(t, 1, s1 - 1), SubSeq(t, s1 + 1, s2 - 1),
                  SubSeq(t, s2 + 1, Len(t)))

\* pd.to_datetime(raw, errors='coerce').strftime('%m/%d/%Y') for a text of the
\* form month/day/year with a day up to 28; <<>> for the other texts the inputs
\* hold (status words), which pandas does not read as dates
FormatDate(t) == DateParts(t, SlashAt(t, 1, 1), SlashAt(t, 1, 2))

\* pd.to_datetime of an integer counts nanoseconds from the epoch
T_epoch == <<"0","1","/","0","1","/","1","9","7","0">>

\* lines 377-405: the formatted date, else the trimmed raw value
DateOrRaw(raw_date, raw_value, formatted) ==
    IF raw_value = <<>> THEN NaN
    ELSE IF raw_date.k = "int" THEN StrV(T_epoch)
    ELSE IF formatted # <<>> THEN StrV(formatted)
    ELSE StrV(raw_value)

ResignationValue(raw_date) ==
    IF IsNa(raw_date) THEN NaN
    ELSE DateOrRaw(raw_date, Strip(Str(raw_date)), FormatDate(Str(raw_date)))

ResignationAt(df, date_columns, hit) ==
    IF hit = 0 \/ date_columns = <<>> THEN NaN
    ELSE ResignationValue(Cell(df, hit, date_columns[1]))

ResignationByNumber(num, df) ==
    IF IsNa(num) THEN NaN
    ELSE ResignationAt(df, DateColumns(df), NumericMatchRow(df, L_PERNR, num, 1))

\* ProcessingController.get_resignation_date
get_resignation_date(employee_number, masterlist_resigned_df) ==
    IF \/ IsFalsy(employee_number) \/ IsNone(masterlist_resigned_df)
       \/ ~HasCol(masterlist_resigned_df, L_PERNR)
    THEN NaN
    ELSE ResignationByNumber(ToNumeric(employee_number), masterlist_resigned_df)

\* the keyword lists of get_organizational_data
PositionKeywords == {<<"p","o","s","i","t","i","o","n">>, <<"j","o","b">>, <<"t","i","t","l","e">>, <<"r","o","l","e">>, <<"p","o","s","."," ","n","a","m","e">>}
SegmentKeywords == {<<"s","e","g","m","e","n","t">>}
GroupKeywords == {<<"g","r","o","u","p">>}
AreaKeywords == {<<"a","r","e","a">>, <<"d","i","v","i","s","i","o","n">>}
DepartmentKeywords == {<<"d","e","p","a","r","t","m","e","n","t">>, <<"b","r","a","n","c","h">>, <<"u","n","i","t">>}

NoOrgData == [Position_Name |-> NaN, Segment_Name |-> NaN, Group_Name |-> NaN,
              Area_Division_Name |-> NaN, Department_Branch |-> NaN]

\* str(value) of a cell that is not null
OrgText(value) == IF IsNa(value) THEN NaN ELSE StrV(Str(value))

OrgValueIn(df, hit, matching_cols) ==
    IF matching_cols = <<>> THEN NaN ELSE OrgText(Cell(df, hit, matching_cols[1]))

\* the value of the first column whose label contains one of the keywords
OrgValue(df, hit, keywords) == OrgValueIn(df, hit, WithAnyKeyword(df, keywords))

OrgDataAt(df, hit) ==
    IF hit = 0 THEN NoOrgData
    ELSE [Position_Name |-> OrgValue(df, hit, PositionKeywords),
          Segment_Name |-> OrgValue(df, hit, SegmentKeywords),
          Group_Name |-> OrgValue(df, hit, GroupKeywords),
          Area_Division_Name |-> OrgValue(df, hit, AreaKeywords),
          Department_Branch |-> OrgValue(df, hit, DepartmentKeywords)]

OrgDataIn(num, df, pernr_col_org) ==
    IF pernr_col_org = NoCol \/ IsNa(num) THEN NoOrgData
    ELSE OrgDataAt(df, NumericMatchRow(df, pernr_col_org, num, 1))

\* ProcessingController.get_organizational_data
get_organizational_data(employee_number, masterlist_current_df) ==
    IF IsFalsy(employee_number) \/ IsNone(masterlist_current_df) THEN NoOrgData
    ELSE OrgDataIn(ToNumeric(employee_number), masterlist_current_df,
                   PernrOrPersNumber(masterlist_current_df))

(***************************************************************************)
(* ProcessingController.cleanup_worker: the cascade run for one row.       *)
(* w holds the worker's local tables and the columns detected before the   *)
(* loop; r is the row.  "tried" lists the stages that were executed with   *)
(* what each of them returned.                                             *)
(***************************************************************************)
K_username == <<"u","s","e","r","n","a","m","e">>

\* previous_df[previous_df[user_id_previous] == user_id], first row; 0 if empty
RECURSIVE UserIdMatchRow(_, _, _, _)
UserIdMatchRow(df, col, user_id, r) ==
    IF r > Len(df.rows) THEN 0
    ELSE IF NotNa(Cell(df, r, col)) /\ Cell(df, r, col) = user_id THEN r
    ELSE UserIdMatchRow(df, col, user_id, r + 1)

\* what one stage of the cascade returned
Stage(name, employee_number, match_type, match_score) ==
    [stage |-> name, employee_number |-> employee_number,
     match_type |-> match_type, match_score |-> match_score]

\* the five values the cascade carries from stage to stage, and the stages run
Carried(employee_number, full_name, full_name_source, match_type, match_score, tried) ==
    [employee_number |-> employee_number, full_name |-> full_name,
     full_name_source |-> full_name_source, match_type |-> match_type,
     match_score |-> match_score, tried |-> tried]

\* lines 83-87: the values a row starts with
RowStart(tried) == Carried(NaN, NaN, "None", "no_match", Pct(0), tried)

\* lines 105-109
LegacyFound(pernr_str) ==
    IF pernr_str # <<>>
    THEN Carried(StrV(pernr_str), NaN, "None", "user_id_match", Pct(100),
                 <<Stage("legacy", StrV(pernr_str), "user_id_match", Pct(100))>>)
    ELSE RowStart(<<Stage("legacy", NaN, "no_match", Pct(0))>>)

\* a faulty step, used to test the properties below: the value is taken
\* without trimming
LegacyValueUntrimmed(pernr_value) ==
    IF is_valid_pernr(pernr_value) THEN LegacyFound(Str(pernr_value))
    ELSE RowStart(<<Stage("legacy", NaN, "no_match", Pct(0))>>)

\* lines 96-109
LegacyValue(pernr_value) ==
    IF is_valid_pernr(pernr_value) THEN LegacyFound(Strip(Str(pernr_value)))
    ELSE RowStart(<<Stage("legacy", NaN, "no_match", Pct(0))>>)

\* lines 93-109
LegacyAt(previous_df, pernr_previous, hit) ==
    IF hit = 0 THEN RowStart(<<Stage("legacy", NaN, "no_match", Pct(0))>>)
    ELSE LegacyValue(Cell(previous_df, hit, pernr_previous))

\* lines 91-109
LegacyFor(previous_df, user_id_previous, pernr_previous, user_id) ==
    LegacyAt(previous_df, pernr_previous,
             IF IsNa(user_id) THEN 0
             ELSE UserIdMatchRow(previous_df, user_id_previous, user_id, 1))

\* Step 1: lookup PERNR by User ID from previous_reference
LegacyLookup(w, r) ==
    IF /\ w.has_previous_reference
       /\ w.lookup.user_id_current # NoCol
       /\ w.lookup.user_id_previous # NoCol
       /\ w.lookup.pernr_previous # NoCol
    THEN LegacyFor(w.previous_df, w.lookup.user_id_previous, w.lookup.pernr_previous,
                   Cell(w.current_df, r, w.lookup.user_id_current))
    ELSE RowStart(<<>>)

\* [col for col in current_df.columns if 'username' in ... or 'name' in ...]
NameColumnsCurrent(df) ==
    SelectSeq(df.cols, LAMBDA c :
        Contains(Lower(c), K_username) \/ Contains(Lower(c), K_name))

\* the row's name: the first column whose label contains "username" or "name"
\* (only the new, still empty columns qualify when the table has none)
CurrentName(w, r) ==
    IF NameColumnsCurrent(w.current_df) = <<>> THEN NaN
    ELSE Cell(w.current_df, r, NameColumnsCurrent(w.current_df)[1])

\* "if current_name and pd.notna(current_name)"
UsableName(v) == NotNa(v) /\ ~(v.k = "str" /\ v.s = <<>>) /\ ~(v.k = "int" /\ v.n = 0)

\* lines 124-128 and 132-136: the four values are overwritten by what the
\* search returned, the source only when a full name came back
Found(name, source, res, s) ==
    Carried(res.employee_number, res.full_name,
            IF NotNa(res.full_name) THEN source ELSE s.full_name_source,
            res.match_type, res.match_score,
            Append(s.tried, Stage(name, res.employee_number, res.match_type,
                                  res.match_score)))

\* one call of find_employee_by_name from the cascade
NameStage(eng, name, source, current_name, masterlist_df, s) ==
    Found(name, source, find_employee_by_name(eng, current_name, masterlist_df), s)

\* a faulty stage, used to test the properties below: the resigned list is
\* searched even when an identifier has been found
ResignedStageAlways(eng, w, current_name, s) ==
    IF ~IsNone(w.masterlist_resigned_df)
    THEN NameStage(eng, "resigned", "Resigned Masterlist", current_name,
                   w.masterlist_resigned_df, s)
    ELSE s

\* lines 130-136
ResignedStage(eng, w, current_name, s) ==
    IF IsNa(s.employee_number) /\ ~IsNone(w.masterlist_resigned_df)
    THEN NameStage(eng, "resigned", "Resigned Masterlist", current_name,
                   w.masterlist_resigned_df, s)
    ELSE s

\* lines 121-136
NameStages(eng, w, current_name, s) ==
    IF ~UsableName(current_name) THEN s
    ELSE ResignedStage(eng, w, current_name,
             IF ~IsNone(w.masterlist_current_df)
             THEN NameStage(eng, "current", "Current Masterlist", current_name,
                            w.masterlist_current_df, s)
             ELSE s)

\* Step 2: name matching against the current, then the resigned masterlist
NameLookup(eng, w, r, s1) ==
    IF NotNa(s1.employee_number) THEN s1
    ELSE NameStages(eng, w, CurrentName(w, r), s1)

\* Step 3: the full name by identifier when a stage gave none
WithFullName(s, by_pernr) ==
    IF NotNa(s.employee_number) /\ IsNa(s.full_name)
    THEN [s EXCEPT !.full_name = by_pernr.full_name,
                   !.full_name_source = by_pernr.source]
    ELSE s

\* update_employee_record: the values written into the row
Record(s, resignation_date, org_data) ==
    [PERNR |-> s.employee_number,
     Full_Name |-> s.full_name,
     Full_Name_Source |-> s.full_name_source,
     Resignation_Date |-> resignation_date,
     Position_Name |-> org_data.Position_Name,
     Segment_Name |-> org_data.Segment_Name,
     Group_Name |-> org_data.Group_Name,
     Area_Division_Name |-> org_data.Area_Division_Name,
     Department_Branch |-> org_data.Department_Branch,
     Match_Type |-> s.match_type,
     Match_Score |-> s.match_score]

\* Steps 3 to 5 and the record written, for the values s of steps 1 and 2;
\* "raised" when step 3 is run and raises
Enriched(w, s) ==
    [tried |-> s.tried,
     raised |-> /\ NotNa(s.employee_number) /\ IsNa(s.full_name)
                /\ FullNameRaises(s.employee_number),
     out |-> Record(WithFullName(s, get_full_name_from_pernr(s.employee_number,
                                        w.masterlist_current_df,
                                        w.masterlist_resigned_df)),
                    get_resignation_date(s.employee_number, w.masterlist_resigned_df),
                    get_organizational_data(s.employee_number, w.masterlist_current_df))]

\* lines 82-154 for row r
ProcessRow(eng, w, r) == Enriched(w, NameLookup(eng, w, r, LegacyLookup(w, r)))

(***************************************************************************)
(* ProcessingController.finalize_processing                                *)
(***************************************************************************)
\* clean_pernr: a numeric identifier in clean form, any other text verbatim
clean_pernr(pernr_value) ==
    IF IsNa(pernr_value) THEN NaN
    ELSE LET pernr_str == Strip(Str(pernr_value)) IN
         IF pernr_str = <<>> THEN NaN
         ELSE IF NotNa(ToNumeric(StrV(pernr_str)))
              THEN StrV(NatToText(ToNumeric(StrV(pernr_str)).n))
              ELSE StrV(pernr_str)

\* current_df['PERNR'] = current_df['PERNR'].apply(clean_pernr)
CleanedDf(df) ==
    [df EXCEPT !.out = [r \in 1..Len(df.out) |->
                           [df.out[r] EXCEPT !.PERNR = clean_pernr(df.out[r].PERNR)]],
               !.rows = [r \in 1..Len(df.rows) |->
                            Written(df.cols, df.rows[r],
                                    [df.out[r] EXCEPT !.PERNR = clean_pernr(df.out[r].PERNR)])]]

\* the positions at which a boolean mask is true, in order
RECURSIVE KeepRows(_, _)
KeepRows(mask, r) ==
    IF r > Len(mask) THEN <<>>
    ELSE (IF mask[r] THEN <<r>> ELSE <<>>) \o KeepRows(mask, r + 1)

\* the table made of the rows idx of df
RowsAt(df, idx) ==
    [present |-> TRUE, cols |-> df.cols,
     rows |-> [i \in 1..Len(idx) |-> df.rows[idx[i]]],
     out |-> [i \in 1..Len(idx) |-> df.out[idx[i]]]]

\* df[mask].copy()
FilterDf(df, mask) == RowsAt(df, KeepRows(mask, 1))

\* a faulty partition, used to test the properties below: the rows without a
\* match instead of the rows without an identifier
UnmatchedByType(df) ==
    FilterDf(df, [r \in 1..Len(df.out) |-> df.out[r].Match_Type = "no_match"])

\* current_df[current_df['PERNR'].isna()]
UnmatchedOf(df) == FilterDf(df, [r \in 1..Len(df.out) |-> IsNa(df.out[r].PERNR)])

\* current_df[current_df['PERNR'].notna() & (current_df['Match Type'] == 'fuzzy_match')]
FuzzyMatchedOf(df) ==
    FilterDf(df, [r \in 1..Len(df.out) |->
                     NotNa(df.out[r].PERNR) /\ df.out[r].Match_Type = "fuzzy_match"])

(***************************************************************************)
(* The state of the application                                            *)
(***************************************************************************)
VARIABLES
    engine,        \* MainController.matching_engine
    dataset,       \* MainController.employee_dataset
    cancel_flag,   \* ProcessingController.cancel_flag
    ui,            \* the widgets of the preview, cleanup and results views
    after,         \* the callbacks queued with root.after(0, ...)
    workers,       \* the cleanup threads, by the order they were started in
    published,     \* history: the run that assigned each result table (0: none)
    call,          \* the arguments of a call of find_employee_by_name, or of
                   \* sort_list / sort_dataframe
    ret            \* history: what the call returned, and the arguments of
                   \* the last update_settings

vars == <<engine, dataset, cancel_flag, ui, after, workers, published, call, ret>>

MaxRuns == 2
MaxRows == 2
MaxCurRows == 2

\* all tables with the given columns and 1..n rows drawn from a pool of rows
TablesOf(cols, pool, n) ==
    {MkTable(cols, rows) : rows \in UNION {[1..k -> pool] : k \in 1..n}}

(***************************************************************************)
(* EmployeeDataset                                                         *)
(***************************************************************************)
NewDataset ==
    [current_system |-> NoTable, previous_reference |-> NoTable,
     masterlist_current |-> NoTable, masterlist_resigned |-> NoTable,
     cleaned_data |-> NoDf, unmatched_data |-> NoDf, fuzzy_matched_data |-> NoDf]

is_ready_for_processing(ds) ==
    /\ ~IsNone(ds.current_system)
    /\ ~IsNone(ds.masterlist_current)
    /\ ~IsNone(ds.masterlist_resigned)

get_missing_files(ds) ==
    (IF IsNone(ds.current_system) THEN {"Current System Report"} ELSE {})
    \cup (IF IsNone(ds.masterlist_current) THEN {"Masterlist - Current"} ELSE {})
    \cup (IF IsNone(ds.masterlist_resigned) THEN {"Masterlist - Resigned"} ELSE {})

clear_system_reports(ds) ==
    [ds EXCEPT !.current_system = NoTable, !.previous_reference = NoTable,
               !.cleaned_data = NoDf, !.unmatched_data = NoDf,
               !.fuzzy_matched_data = NoDf]

clear_all_data(ds) == NewDataset

NonePublished == [cleaned_data |-> 0, unmatched_data |-> 0, fuzzy_matched_data |-> 0]

(***************************************************************************)
(* MatchingEngine as a service: the settings are updated any number of     *)
(* times, then one name search is made.                                    *)
(***************************************************************************)
L_Name == <<"N","a","m","e">>
L_Employee == <<"E","m","p","l","o","y","e","e">>
T_cantfind == <<"c","a","n","t"," ","f","i","n","d">>
T_SAMU == <<"S","A","M","U","-"," "," ">>
T_u1 == <<"u","1">>
T_u2 == <<"u","2">>

\* reference rows as (identifier, name)
RefRows ==
    { <<IntV(5), StrV(T_AlBo)>>, <<IntV(8), StrV(T_alby)>>, <<IntV(7), StrV(T_albx)>>,
      <<StrV(T_09), StrV(T_boal)>>, <<StrV(T_ABC), StrV(T_alxbo)>>,
      <<IntV(6), NaN>>, <<StrV(T_ABC), StrV(T_ALBO)>> }

\* the column layouts of the reference tables searched
RefLayouts == { <<L_PERNR, L_FullName>>, <<L_PersNumber, L_Name>>,
                <<L_Employee, L_FullName>> }

\* no table, an empty table, every table of up to MaxRows rows in the usual
\* layout and the one-row tables of the other layouts
FindTables ==
    {NoTable} \cup {MkTable(<<L_PERNR, L_FullName>>, <<>>)}
    \cup TablesOf(<<L_PERNR, L_FullName>>, RefRows, MaxRows)
    \cup UNION {TablesOf(cols, RefRows, 1) : cols \in RefLayouts}

FindNames == {StrV(T_AlBo), StrV(T_alby)}

FindCalls == [current_name : FindNames, masterlist_df : FindTables]

\* no call of update_settings made yet
NoSettings == [made |-> FALSE, use_fuzzy_logic |-> TRUE, threshold |-> 0]

\* the history of the service: whether the search was made, with which
\* settings and outcome, and the arguments of the last update_settings call
NoRet == [called |-> FALSE, eng |-> NewEngine, result |-> NoMatch,
          phase |-> "none", best |-> NoBest, asked |-> NoSettings]

\* the thresholds a caller may pass; the slider of the cleanup view gives 50..100
SettingThresholds == {-3, 40, 80, 91, 120}

InitFind ==
    /\ engine = NewEngine
    /\ dataset = NewDataset
    /\ cancel_flag = FALSE
    /\ ui = [cleanup_frame |-> FALSE, widgets |-> "none", run_btn |-> "normal",
             progress |-> Pct(0), status |-> "", preview_frame |-> FALSE,
             results_frame |-> FALSE]
    /\ after = <<>>
    /\ workers = <<>>
    /\ published = NonePublished
    /\ call \in FindCalls
    /\ ret = NoRet

\* MatchingEngine.update_settings
UpdateSettings(use_fuzzy_logic, threshold) ==
    /\ ~ret.called
    /\ engine' = update_settings(engine, use_fuzzy_logic, threshold)
    /\ ret' = [ret EXCEPT !.asked = [made |-> TRUE,
                                     use_fuzzy_logic |-> use_fuzzy_logic,
                                     threshold |-> threshold]]
    /\ UNCHANGED <<dataset, cancel_flag, ui, after, workers, published, call>>

\* the call's outcome with the settings it was made under
Returned(eng, t) ==
    [called |-> TRUE, eng |-> eng, result |-> t.result, phase |-> t.phase,
     best |-> t.best, asked |-> ret.asked]

\* MatchingEngine.find_employee_by_name
FindCall ==
    /\ ~ret.called
    /\ ret' = Returned(engine, FindTrace(engine, call.current_name, call.masterlist_df))
    /\ UNCHANGED <<engine, dataset, cancel_flag, ui, after, workers, published, call>>

NextFind ==
    \/ \E f \in BOOLEAN, t \in SettingThresholds : UpdateSettings(f, t)
    \/ FindCall

SpecFind == InitFind /\ [][NextFind]_vars

(***************************************************************************)
(* Properties of find_employee_by_name (SpecFind).  The table searched is  *)
(* call.masterlist_df; the properties speak of the rows the way the        *)
(* specification does, not through the loops of the code.                  *)
(***************************************************************************)
QueryClean == Lower(Strip(Str(call.current_name)))

\* the search reaches the rows: a non-empty table whose name and identifier
\* columns are resolved
Searchable(df) ==
    /\ ~IsNone(df) /\ ~IsEmpty(df)
    /\ NameColumns(df) # <<>> /\ EmpNumColumns(df) # <<>>

RefName(df, r) == Cell(df, r, NameColumns(df)[1])
RefId(df, r) == Cell(df, r, EmpNumColumns(df)[1])
\* str(int(pd.to_numeric(value))) of an identifier cell, None if not numeric
RefIdText(df, r) ==
    IF RefId(df, r).k = "int" THEN StrV(NatToText(RefId(df, r).n))
    ELSE IF RefId(df, r).k = "str" /\ AllDigits(Strip(RefId(df, r).s))
         THEN StrV(NatToText(DigitsToNat(Strip(RefId(df, r).s))))
         ELSE NaN

NamedRows(df) == {r \in 1..Len(df.rows) : NotNa(RefName(df, r))}
EqualNameRows(df) ==
    {r \in NamedRows(df) : Lower(Strip(Str(RefName(df, r)))) = QueryClean}
RowScore(df, r) == SimTable[<<QueryClean, Lower(Strip(Str(RefName(df, r))))>>]
AtThreshold(df, threshold) ==
    {r \in NamedRows(df) : ScoreLe(Pct(threshold), RowScore(df, r))}
BestRows(df) ==
    {r \in NamedRows(df) : \A q \in NamedRows(df) : ScoreLe(RowScore(df, q), RowScore(df, r))}
FirstOf(rows) == CHOOSE r \in rows : \A q \in rows : r <= q

\* C5: when some row's name equals the query after trimming and lower-casing,
\* the result is exact_match with score 100.0 built from the first such row,
\* for every fuzzy flag and threshold, and the fuzzy loop is not entered.
C5_ExactMatchWins ==
    (ret.called /\ Searchable(call.masterlist_df)
       /\ EqualNameRows(call.masterlist_df) # {})
    => /\ ret.result =
            [employee_number |->
                 RefIdText(call.masterlist_df, FirstOf(EqualNameRows(call.masterlist_df))),
             full_name |->
                 StrV(Str(RefName(call.masterlist_df,
                                  FirstOf(EqualNameRows(call.masterlist_df))))),
             match_type |-> "exact_match", match_score |-> Pct(100)]
       /\ ret.phase = "exact"
       /\ ret.best = NoBest

\* C5 happens: fuzzy matching is on, a row before the equal one scores at or
\* above the threshold, and the result is still the exact one
C5_Witness ==
    /\ ret.called /\ Searchable(call.masterlist_df) /\ ret.eng.use_fuzzy_logic
    /\ ret.result.match_type = "exact_match"
    /\ \E r \in EqualNameRows(call.masterlist_df) :
          \E q \in AtThreshold(call.masterlist_df, ret.eng.threshold) :
              q < r /\ q \notin EqualNameRows(call.masterlist_df)

\* C6: with no exact equal name and fuzzy matching enabled, the result is
\* fuzzy_match exactly when some named row scores at or above the threshold,
\* its score is then the maximum over all rows, and it is no_match otherwise.
C6_FuzzyIffOverThreshold ==
    (ret.called /\ Searchable(call.masterlist_df) /\ ret.eng.use_fuzzy_logic
       /\ EqualNameRows(call.masterlist_df) = {})
    => /\ ret.result.match_type \in {"fuzzy_match", "no_match"}
       /\ (ret.result.match_type = "fuzzy_match")
            <=> (AtThreshold(call.masterlist_df, ret.eng.threshold) # {})
       /\ ret.result.match_type = "fuzzy_match"
            => \E r \in BestRows(call.masterlist_df) :
                   ret.result.match_score = RowScore(call.masterlist_df, r)

NewUi ==
    [cleanup_frame |-> FALSE, widgets |-> "none", run_btn |-> "normal",
     progress |-> Pct(0), status |-> "", preview_frame |-> FALSE,
     results_frame |-> FALSE]

\* CleanupView.show, after the missing-files check: a new frame and new widgets
ShownCleanup(u) ==
    [u EXCEPT !.cleanup_frame = TRUE, !.widgets = "live", !.run_btn = "normal",
              !.progress = Pct(0), !.status = "Ready to start clean-up"]

\* CleanupView.update_progress on widgets that exist
update_progress(u, value, status) ==
    IF u.widgets = "live" THEN [u EXCEPT !.progress = value, !.status = status]
    ELSE u

\* CleanupView.reset_run_button on widgets that exist
reset_run_button(u) ==
    IF u.widgets = "live" THEN [u EXCEPT !.run_btn = "normal"] ELSE u

\* a widget call raises when the cleanup frame has been destroyed
Raises(u) == u.widgets = "destroyed"

\* cleanup_frame.destroy(); cleanup_frame = None
DestroyedCleanup(u) ==
    [u EXCEPT !.cleanup_frame = FALSE,
              !.widgets = IF u.widgets = "live" THEN "destroyed" ELSE u.widgets]

\* the "hide all sections" part of MainController.clear_all_files and
\* clear_system_reports; reset_cleanup_state raises on destroyed widgets and
\* the results section is then left as it is
HiddenSections(u) ==
    IF u.cleanup_frame
    THEN [DestroyedCleanup(u) EXCEPT !.preview_frame = FALSE, !.results_frame = FALSE]
    ELSE IF Raises(u) THEN [u EXCEPT !.preview_frame = FALSE]
    ELSE [u EXCEPT !.preview_frame = FALSE, !.results_frame = FALSE]

(***************************************************************************)
(* A cleanup thread: its position in cleanup_worker, its local tables and, *)
(* as history, the settings and stages of every row it has processed,      *)
(* whether cancellation was requested while a row check was still ahead,   *)
(* whether a lookup of the row loop raised, the outcomes it has reported,  *)
(* whether it has rewritten its identifier column, the result tables it    *)
(* has assigned and the progress reports it has made.                      *)
(***************************************************************************)
NoLookup == [user_id_current |-> NoCol, user_id_previous |-> NoCol,
             pernr_previous |-> NoCol]

NewWorker ==
    [pc |-> "begin", current_df |-> NoDf, previous_df |-> NoTable,
     masterlist_current_df |-> NoTable, masterlist_resigned_df |-> NoTable,
     has_previous_reference |-> FALSE, lookup |-> NoLookup, idx |-> 1,
     trace |-> <<>>, cancel_req |-> FALSE, row_error |-> FALSE, reported |-> {},
     cleaned |-> FALSE, assigned |-> {}, events |-> <<>>]

\* history: a progress report of the worker, with the result tables the
\* worker had assigned when it made the report
Event(w, value) == [value |-> value, assigned |-> w.assigned]

Terminated == {"completed", "cancelled", "failed"}
Active(w) == w.pc \notin Terminated

\* a per-row check of the cancel flag is still ahead of the worker
CheckAhead(w) ==
    \/ w.pc \in {"validate", "detect", "check"} /\ Len(w.current_df.rows) > 0
    \/ w.pc = "row" /\ w.idx < Len(w.current_df.rows)

\* lines 44-57: the copies of the four tables
Copied(w, ds) ==
    [w EXCEPT !.pc = "validate",
              !.current_df = [present |-> TRUE, cols |-> ds.current_system.cols,
                              rows |-> ds.current_system.rows, out |-> <<>>],
              !.previous_df = ds.previous_reference,
              !.masterlist_current_df = ds.masterlist_current,
              !.masterlist_resigned_df = ds.masterlist_resigned,
              !.has_previous_reference = (~IsNone(ds.previous_reference)
                                          /\ ~IsEmpty(ds.previous_reference))]

\* the except branch of cleanup_worker: the error dialog and the button reset
\* are queued for the interactive thread
Failed(i) ==
    /\ workers' = [workers EXCEPT ![i].pc = "failed",
                                  ![i].reported = @ \cup {"failed"}]
    /\ after' = after \o <<"error", "reset">>

\* the except branch entered from a lookup of the row loop
FailedInRow(i) ==
    /\ workers' = [workers EXCEPT ![i].pc = "failed", ![i].row_error = TRUE,
                                  ![i].reported = @ \cup {"failed"}]
    /\ after' = after \o <<"error", "reset">>

\* lines 44-57; dataset.current_system.copy() raises when the table is None
WorkerBegin(i) ==
    /\ workers[i].pc = "begin"
    /\ IF IsNone(dataset.current_system)
       THEN Failed(i)
       ELSE /\ workers' = [workers EXCEPT ![i] = Copied(workers[i], dataset)]
            /\ UNCHANGED after
    /\ UNCHANGED <<engine, dataset, cancel_flag, ui, published, call, ret>>

\* lines 59-62
WorkerValidate(i) ==
    /\ workers[i].pc = "validate"
    /\ IF Raises(ui)
       THEN Failed(i) /\ UNCHANGED ui
       ELSE /\ ui' = update_progress(ui, Pct(10), "Loading and validating data...")
            /\ workers' = [workers EXCEPT
                   ![i].current_df = initialize_new_columns(workers[i].current_df),
                   ![i].events = Append(@, Event(workers[i], Pct(10))),
                   ![i].pc = "detect"]
            /\ UNCHANGED after
    /\ UNCHANGED <<engine, dataset, cancel_flag, published, call, ret>>

\* the status text of line 66
LookupStatus(has_previous_reference, use_fuzzy_logic) ==
    IF has_previous_reference
    THEN (IF use_fuzzy_logic
          THEN "Looking up PERNRs, Full Names, Resignation Dates, and Organizational Data (User ID lookup + Name fallback with fuzzy matching)..."
          ELSE "Looking up PERNRs, Full Names, Resignation Dates, and Organizational Data (User ID lookup + Name fallback exact matching only)...")
    ELSE (IF use_fuzzy_logic
          THEN "Looking up PERNRs, Full Names, Resignation Dates, and Organizational Data (Name matching only with fuzzy matching)..."
          ELSE "Looking up PERNRs, Full Names, Resignation Dates, and Organizational Data (Name matching only exact matching only)...")

\* lines 64-72
WorkerDetect(i) ==
    /\ workers[i].pc = "detect"
    /\ IF Raises(ui)
       THEN Failed(i) /\ UNCHANGED ui
       ELSE /\ ui' = update_progress(ui, Pct(20),
                         LookupStatus(workers[i].has_previous_reference,
                                      engine.use_fuzzy_logic))
            /\ workers' = [workers EXCEPT
                   ![i].lookup = detect_lookup_columns(workers[i].current_df,
                                                       workers[i].previous_df),
                   ![i].idx = 1,
                   ![i].events = Append(@, Event(workers[i], Pct(20))),
                   ![i].pc = IF Len(workers[i].current_df.rows) = 0
                             THEN "report" ELSE "check"]
            /\ UNCHANGED after
    /\ UNCHANGED <<engine, dataset, cancel_flag, published, call, ret>>

\* lines 73-76: the check of the cancel flag at the head of the loop body
WorkerCheck(i) ==
    /\ workers[i].pc = "check"
    /\ IF ~cancel_flag
       THEN /\ workers' = [workers EXCEPT ![i].pc = "row"]
            /\ UNCHANGED <<ui, after>>
       ELSE IF Raises(ui)
       THEN Failed(i) /\ UNCHANGED ui
       ELSE /\ ui' = update_progress(ui, Pct(0), "Cleanup cancelled by user")
            /\ workers' = [workers EXCEPT ![i].pc = "cancel_reset",
                                          ![i].events = Append(@, Event(workers[i], Pct(0))),
                                          ![i].reported = @ \cup {"cancelled"}]
            /\ UNCHANGED after
    /\ UNCHANGED <<engine, dataset, cancel_flag, published, call, ret>>

\* lines 78-80: the run button is reset from the worker thread, then return
WorkerCancelReset(i) ==
    /\ workers[i].pc = "cancel_reset"
    /\ IF Raises(ui)
       THEN Failed(i) /\ UNCHANGED ui
       ELSE /\ ui' = reset_run_button(ui)
            /\ workers' = [workers EXCEPT ![i].pc = "cancelled"]
            /\ UNCHANGED after
    /\ UNCHANGED <<engine, dataset, cancel_flag, published, call, ret>>

\* a faulty progress value, used to test the properties below: the row
\* number is not divided by the number of rows
RowProgressUnscaled(r, total) == Pct(20 + r * 70)

\* progress = 20 + (idx / len(current_df)) * 70, idx being the 0-based row label
RowProgress(r, total) == Frac(20 * total + (r - 1) * 70, total)

\* lines 82-154 done for row w.idx: the record written, the history of the
\* row and the step to the next row
RowDone(w, eng, p) ==
    [w EXCEPT !.current_df.out[w.idx] = p.out,
              !.current_df.rows[w.idx] = Written(w.current_df.cols, @, p.out),
              !.trace = Append(@, [eng |-> eng, tried |-> p.tried]),
              !.events = Append(@, Event(w, RowProgress(w.idx, Len(w.current_df.rows)))),
              !.idx = @ + 1,
              !.pc = IF w.idx < Len(w.current_df.rows) THEN "check" ELSE "report"]

\* lines 82-182 with the outcome p of lines 82-154: an exception of a lookup
\* or of the progress report leaves the loop for the except branch
RowStep(i, p) ==
    IF p.raised
    THEN FailedInRow(i) /\ UNCHANGED ui
    ELSE IF Raises(ui)
    THEN Failed(i) /\ UNCHANGED ui
    ELSE /\ ui' = update_progress(ui,
                      RowProgress(workers[i].idx, Len(workers[i].current_df.rows)),
                      "Processing row")
         /\ workers' = [workers EXCEPT ![i] = RowDone(workers[i], engine, p)]
         /\ UNCHANGED after

\* lines 82-182: one row of the loop
WorkerRow(i) ==
    /\ workers[i].pc = "row"
    /\ RowStep(i, ProcessRow(engine, workers[i], workers[i].idx))
    /\ UNCHANGED <<engine, dataset, cancel_flag, published, call, ret>>

\* line 184
WorkerReport(i) ==
    /\ workers[i].pc = "report"
    /\ IF Raises(ui)
       THEN Failed(i) /\ UNCHANGED ui
       ELSE /\ ui' = update_progress(ui, Pct(95), "Generating clean reports...")
            /\ workers' = [workers EXCEPT ![i].pc = "store_cleaned",
                                          ![i].events = Append(@, Event(workers[i], Pct(95)))]
            /\ UNCHANGED after
    /\ UNCHANGED <<engine, dataset, cancel_flag, published, call, ret>>

\* finalize_processing, lines 508-511
WorkerStoreCleaned(i) ==
    /\ workers[i].pc = "store_cleaned"
    /\ workers' = [workers EXCEPT ![i].current_df = CleanedDf(workers[i].current_df),
                                  ![i].cleaned = TRUE,
                                  ![i].assigned = @ \cup {"cleaned_data"},
                                  ![i].pc = "store_unmatched"]
    /\ dataset' = [dataset EXCEPT !.cleaned_data = CleanedDf(workers[i].current_df)]
    /\ published' = [published EXCEPT !.cleaned_data = i]
    /\ UNCHANGED <<engine, cancel_flag, ui, after, call, ret>>

\* finalize_processing, line 514
WorkerStoreUnmatched(i) ==
    /\ workers[i].pc = "store_unmatched"
    /\ workers' = [workers EXCEPT ![i].pc = "store_fuzzy",
                                  ![i].assigned = @ \cup {"unmatched_data"}]
    /\ dataset' = [dataset EXCEPT !.unmatched_data = UnmatchedOf(workers[i].current_df)]
    /\ published' = [published EXCEPT !.unmatched_data = i]
    /\ UNCHANGED <<engine, cancel_flag, ui, after, call, ret>>

\* finalize_processing, lines 517-518
WorkerStoreFuzzy(i) ==
    /\ workers[i].pc = "store_fuzzy"
    /\ workers' = [workers EXCEPT ![i].pc = "finish",
                                  ![i].assigned = @ \cup {"fuzzy_matched_data"}]
    /\ dataset' = [dataset EXCEPT
           !.fuzzy_matched_data = FuzzyMatchedOf(workers[i].current_df)]
    /\ published' = [published EXCEPT !.fuzzy_matched_data = i]
    /\ UNCHANGED <<engine, cancel_flag, ui, after, call, ret>>

\* lines 189-197: the last progress report, the queued button reset and the
\* results section
WorkerFinish(i) ==
    /\ workers[i].pc = "finish"
    /\ IF Raises(ui)
       THEN Failed(i) /\ UNCHANGED ui
       ELSE /\ ui' = [update_progress(ui, Pct(100), "Clean-up completed successfully!")
                      EXCEPT !.results_frame = TRUE]
            /\ workers' = [workers EXCEPT ![i].pc = "completed",
                                          ![i].events = Append(@, Event(workers[i], Pct(100))),
                                          ![i].reported = @ \cup {"completed"}]
            /\ after' = Append(after, "reset")
    /\ UNCHANGED <<engine, dataset, cancel_flag, published, call, ret>>

\* the cleanup threads started so far
Threads == 1..Len(workers)

(***************************************************************************)
(* The operations of the interactive thread                                *)
(***************************************************************************)
FileTypes == {"current_system", "previous_reference", "masterlist_current",
              "masterlist_resigned"}

\* FileController.store_file_data
store_file_data(ds, file_type, df) == [ds EXCEPT ![file_type] = df]

\* MainController.show_preview_section
ShownPreview(u, ds) ==
    IF is_ready_for_processing(ds) THEN [u EXCEPT !.preview_frame = TRUE] ELSE u

\* FileController.handle_file_upload of a file that parsed to a non-empty table
Upload(file_type, df) ==
    /\ ~IsEmpty(df)
    /\ dataset' = store_file_data(dataset, file_type, df)
    /\ ui' = ShownPreview(ui, store_file_data(dataset, file_type, df))
    /\ UNCHANGED <<engine, cancel_flag, after, workers, published, call, ret>>

\* PreviewView.continue_to_cleanup -> MainController.show_cleanup_section ->
\* CleanupView.show
ContinueToCleanup ==
    /\ ui.preview_frame
    /\ ui' = IF is_ready_for_processing(dataset) /\ get_missing_files(dataset) = {}
             THEN ShownCleanup(ui) ELSE ui
    /\ UNCHANGED <<engine, dataset, cancel_flag, after, workers, published, call, ret>>

\* CleanupView.run_cleanup: lines 222-227 on the widgets
Started(u) ==
    [u EXCEPT !.run_btn = "disabled", !.progress = Pct(0),
              !.status = "Starting clean-up process..."]

\* a click on the run button: CleanupView.run_cleanup and
\* ProcessingController.start_cleanup with the settings of the view
RunCleanup(use_fuzzy_logic, threshold) ==
    /\ ui.widgets = "live" /\ ui.run_btn = "normal"
    /\ Len(workers) < MaxRuns
    /\ ui' = Started(ui)
    /\ cancel_flag' = FALSE
    /\ engine' = update_settings(engine, use_fuzzy_logic, threshold)
    /\ workers' = Append(workers, NewWorker)
    /\ UNCHANGED <<dataset, after, published, call, ret>>

\* the history of a cancellation: the workers that still have a row check ahead
Requested(ws) ==
    [i \in 1..Len(ws) |-> [ws[i] EXCEPT !.cancel_req = @ \/ CheckAhead(ws[i])]]

\* ProcessingController.cancel_cleanup
CancelCleanup ==
    /\ \E i \in Threads : Active(workers[i])
    /\ cancel_flag' = TRUE
    /\ ui' = update_progress(ui, Pct(0), "Cancelling cleanup process...")
    /\ workers' = Requested(workers)
    /\ UNCHANGED <<engine, dataset, after, published, call, ret>>

\* the "Clear All Files" button: MainController.clear_all_files
ClearAllFiles ==
    /\ dataset' = clear_all_data(dataset)
    /\ published' = NonePublished
    /\ ui' = HiddenSections(ui)
    /\ UNCHANGED <<engine, cancel_flag, after, workers, call, ret>>

\* the event loop runs the oldest callback queued with root.after(0, ...):
\* the error dialog, or CleanupView.reset_run_button (which raises on a
\* destroyed button and changes nothing)
RunAfter ==
    /\ after # <<>>
    /\ after' = Tail(after)
    /\ ui' = IF Head(after) = "reset" THEN reset_run_button(ui) ELSE ui
    /\ UNCHANGED <<engine, dataset, cancel_flag, workers, published, call, ret>>

(***************************************************************************)
(* The enrichment pipeline on bounded inputs: the four tables are drawn    *)
(* from small pools, the cleanup section is shown, and one run is started  *)
(* with any of the settings and carried to its end.                        *)
(***************************************************************************)
L_Position == <<"P","o","s","i","t","i","o","n">>
L_Date == <<"D","a","t","e">>
T_Teller == <<"T","e","l","l","e","r">>
T_date == <<"0","3","/","0","5","/","2","0","2","4">>
T_RESIGNED == <<"R","E","S","I","G","N","E","D">>

\* rows of the current system report as (user id, name)
CurrentRows ==
    { <<StrV(T_u1), StrV(T_AlBo)>>, <<StrV(T_u2), StrV(T_alby)>>,
      <<StrV(T_u2), StrV(T_boal)>>, <<NaN, NaN>> }

CurrentTables == TablesOf(<<L_UserID, L_Name>>, CurrentRows, MaxCurRows)

T_NA == <<"N","/","A"," ">>
T_blank == <<" "," ">>

\* the previous reference: none, or user ids with a numeric identifier, a
\* text identifier, a "cant find" marker, a numeric text with a leading zero,
\* an upper-case "N/A", a missing and a blank identifier, a text read as an
\* infinite number, a user id listed twice
PreviousTables ==
    { NoTable,
      MkTable(<<L_UserID, L_PERNR>>, << <<StrV(T_u1), IntV(5)>> >>),
      MkTable(<<L_UserID, L_PERNR>>, << <<StrV(T_u1), StrV(T_SAMU)>>,
                                        <<StrV(T_u2), StrV(T_cantfind)>> >>),
      MkTable(<<L_UserID, L_PERNR>>, << <<StrV(T_u2), StrV(T_09)>>,
                                        <<StrV(T_u1), StrV(T_NA)>> >>),
      MkTable(<<L_UserID, L_PERNR>>, << <<StrV(T_u1), NaN>>,
                                        <<StrV(T_u2), StrV(T_blank)>> >>),
      MkTable(<<L_UserID, L_PERNR>>, << <<StrV(T_u2), StrV(T_inf)>> >>),
      MkTable(<<L_UserID, L_PERNR>>, << <<StrV(T_u1), StrV(T_cantfind)>>,
                                        <<StrV(T_u1), IntV(5)>> >>) }

\* masterlists of current employees as (identifier, name, position)
CurrentLists ==
    { MkTable(<<L_PERNR, L_FullName, L_Position>>, rows) : rows \in
        { << <<IntV(5), StrV(T_AlBo), StrV(T_Teller)>>, <<IntV(8), StrV(T_alby), NaN>> >>,
          << <<StrV(T_ABC), StrV(T_ALBO), StrV(T_Teller)>> >>,
          << <<IntV(7), StrV(T_albx), StrV(T_Teller)>> >>,
          << <<IntV(6), NaN, NaN>>, <<StrV(T_09), StrV(T_boal), NaN>> >>,
          << <<StrV(T_ABC), StrV(T_alxbo), NaN>>, <<IntV(7), StrV(T_albx), NaN>> >>,
          << <<IntV(5), NaN, StrV(T_Teller)>> >> } }

\* masterlists of resigned employees as (identifier, name, date or status)
ResignedLists ==
    { MkTable(<<L_PERNR, L_FullName, L_Date>>, rows) : rows \in
        { << <<IntV(8), StrV(T_alby), StrV(T_date)>> >>,
          << <<StrV(T_ABC), StrV(T_ALBO), StrV(T_RESIGNED)>> >>,
          << <<IntV(5), StrV(T_albx), IntV(0)>>, <<IntV(7), StrV(T_boal), NaN>> >> } }

\* the datasets a run is made on
PipelineDatasets ==
    { [NewDataset EXCEPT !.current_system = c, !.previous_reference = p,
                         !.masterlist_current = m, !.masterlist_resigned = x] :
        c \in CurrentTables, p \in PreviousTables, m \in CurrentLists,
        x \in ResignedLists }

\* the thresholds set on the slider of the cleanup view (it offers 50 to 100)
RunThresholds == {80, 91}

NoCall == [current_name |-> NaN, masterlist_df |-> NoTable]

InitPipeline ==
    /\ engine = NewEngine
    /\ dataset \in PipelineDatasets
    /\ cancel_flag = FALSE
    /\ ui = ShownCleanup(ShownPreview(NewUi, dataset))
    /\ after = <<>>
    /\ workers = <<>>
    /\ published = NonePublished
    /\ call = NoCall
    /\ ret = NoRet

NextPipeline ==
    \/ \E f \in BOOLEAN, t \in RunThresholds : RunCleanup(f, t)
    \/ \E i \in Threads : WorkerBegin(i)
    \/ \E i \in Threads : WorkerValidate(i)
    \/ \E i \in Threads : WorkerDetect(i)
    \/ \E i \in Threads : WorkerCheck(i)
    \/ \E i \in Threads : WorkerRow(i)
    \/ \E i \in Threads : WorkerReport(i)
    \/ \E i \in Threads : WorkerStoreCleaned(i)
    \/ \E i \in Threads : WorkerStoreUnmatched(i)
    \/ \E i \in Threads : WorkerStoreFuzzy(i)
    \/ \E i \in Threads : WorkerFinish(i)

SpecPipeline == InitPipeline /\ [][NextPipeline]_vars

(***************************************************************************)
(* The application: constructed with nothing loaded; files are uploaded,   *)
(* the sections are shown, runs are started, cancelled and cleared in any  *)
(* order while the cleanup threads advance.                                *)
(***************************************************************************)
\* the file chosen for each upload slot
UploadedFile ==
    [current_system |->
        MkTable(<<L_UserID, L_Name>>, << <<StrV(T_u1), StrV(T_AlBo)>> >>),
     previous_reference |->
        MkTable(<<L_UserID, L_PERNR>>, << <<StrV(T_u1), IntV(5)>> >>),
     masterlist_current |->
        MkTable(<<L_PERNR, L_FullName, L_Position>>,
                << <<IntV(5), StrV(T_AlBo), StrV(T_Teller)>> >>),
     masterlist_resigned |->
        MkTable(<<L_PERNR, L_FullName, L_Date>>,
                << <<IntV(8), StrV(T_alby), StrV(T_date)>> >>)]

\* the masterlists are persisted between sessions, the system reports are
\* uploaded in each
SystemReports == {"current_system", "previous_reference"}

\* EmployeeDataset.load_persisted_masterlists
PersistedDataset ==
    [NewDataset EXCEPT !.masterlist_current = UploadedFile.masterlist_current,
                       !.masterlist_resigned = UploadedFile.masterlist_resigned]

Init ==
    /\ engine = NewEngine
    /\ dataset = PersistedDataset
    /\ cancel_flag = FALSE
    /\ ui = NewUi
    /\ after = <<>>
    /\ workers = <<>>
    /\ published = NonePublished
    /\ call = NoCall
    /\ ret = NoRet

Next ==
    \/ \E file_type \in SystemReports : Upload(file_type, UploadedFile[file_type])
    \/ ContinueToCleanup
    \/ RunCleanup(TRUE, DefaultThreshold)
    \/ CancelCleanup
    \/ ClearAllFiles
    \/ RunAfter
    \/ \E i \in Threads : WorkerBegin(i)
    \/ \E i \in Threads : WorkerValidate(i)
    \/ \E i \in Threads : WorkerDetect(i)
    \/ \E i \in Threads : WorkerCheck(i)
    \/ \E i \in Threads : WorkerCancelReset(i)
    \/ \E i \in Threads : WorkerRow(i)
    \/ \E i \in Threads : WorkerReport(i)
    \/ \E i \in Threads : WorkerStoreCleaned(i)
    \/ \E i \in Threads : WorkerStoreUnmatched(i)
    \/ \E i \in Threads : WorkerStoreFuzzy(i)
    \/ \E i \in Threads : WorkerFinish(i)

Spec == Init /\ [][Next]_vars

(***************************************************************************)
(* Properties of the enrichment pipeline (SpecPipeline).  Row r of worker  *)
(* i has been processed once r <= Len(workers[i].trace); trace[r] holds    *)
(* the engine settings the row was processed under and the stages run.     *)
(***************************************************************************)
\* the rows worker w has processed
Processed(w) == 1..Len(w.trace)

\* the rows of the enriched table a completed run has stored
EnrichedRows == 1..Len(dataset.cleaned_data.out)

SomeCompleted == \E i \in Threads : workers[i].pc = "completed"

\* C1: after a completed run, every row of the enriched table has Match Type
\* 'no_match' if and only if its PERNR is absent
C1_NoMatchIffAbsent ==
    SomeCompleted =>
        \A r \in EnrichedRows :
            (dataset.cleaned_data.out[r].Match_Type = "no_match")
                <=> IsNa(dataset.cleaned_data.out[r].PERNR)

\* the positions of finalize_processing and after it
StoredFuzzy == {"finish", "completed"}

\* the name of row r of the worker's table, as the cascade reads it
RowName(w, r) == CurrentName(w, r)

\* some row of the reference table df with a numeric identifier has a name
\* that differs from the query but is similar to it at or above the threshold
WouldMatchFuzzily(threshold, current_name, df) ==
    /\ NotNa(current_name)
    /\ \E q \in 1..Len(df.rows) :
          /\ NotNa(Cell(df, q, L_FullName))
          /\ NotNa(ToNumeric(Cell(df, q, L_PERNR)))
          /\ Lower(Strip(Str(Cell(df, q, L_FullName)))) # Lower(Strip(Str(current_name)))
          /\ ScoreLe(Pct(threshold),
                     Similarity(Lower(Strip(Str(current_name))),
                                Lower(Strip(Str(Cell(df, q, L_FullName))))))

\* C8: a row processed with fuzzy matching disabled never has match type
\* 'fuzzy_match', nor has any name search made for it; and when every row of
\* a run was processed so, the fuzzy-matched table the run stores is empty
C8_NoFuzzyWhenDisabled ==
    \A i \in Threads :
        /\ \A r \in Processed(workers[i]) :
              ~workers[i].trace[r].eng.use_fuzzy_logic =>
                  /\ workers[i].current_df.out[r].Match_Type # "fuzzy_match"
                  /\ \A k \in 1..Len(workers[i].trace[r].tried) :
                        workers[i].trace[r].tried[k].match_type # "fuzzy_match"
        /\ (/\ workers[i].pc \in StoredFuzzy
            /\ \A r \in Processed(workers[i]) :
                  ~workers[i].trace[r].eng.use_fuzzy_logic)
               => /\ dataset.fuzzy_matched_data.present
                  /\ dataset.fuzzy_matched_data.rows = <<>>

\* a completed run with fuzzy matching disabled in which a row has no match
\* although a reference name is similar enough to its name
C8_Witness ==
    \E i \in Threads :
        /\ workers[i].pc = "completed"
        /\ dataset.fuzzy_matched_data.rows = <<>>
        /\ \E r \in Processed(workers[i]) :
              /\ ~workers[i].trace[r].eng.use_fuzzy_logic
              /\ Len(workers[i].trace[r].tried) > 0
              /\ workers[i].current_df.out[r].Match_Type = "no_match"
              /\ WouldMatchFuzzily(workers[i].trace[r].eng.threshold,
                                   RowName(workers[i], r),
                                   workers[i].masterlist_current_df)

MatchTypes == {"user_id_match", "exact_match", "fuzzy_match", "no_match"}

\* the score a match type allows under the threshold the row was processed with
ScoreFits(match_type, match_score, threshold) ==
    /\ match_type \in MatchTypes
    /\ match_type \in {"user_id_match", "exact_match"} => match_score = Pct(100)
    /\ match_type = "fuzzy_match" =>
          ScoreLe(Pct(threshold), match_score) /\ ScoreLe(match_score, Pct(100))
    /\ match_type = "no_match" => match_score = Pct(0)

\* C9: in every processed row the score is 100 for 'user_id_match' and
\* 'exact_match', between the threshold and 100 for 'fuzzy_match', 0 for
\* 'no_match'
C9_ScoreByType ==
    \A i \in Threads : \A r \in Processed(workers[i]) :
        ScoreFits(workers[i].current_df.out[r].Match_Type,
                  workers[i].current_df.out[r].Match_Score,
                  workers[i].trace[r].eng.threshold)

\* a completed run with a fuzzy match scored below 100 and an identifier match
C9_Witness ==
    \E i \in Threads :
        /\ workers[i].pc = "completed"
        /\ \E r \in Processed(workers[i]) :
              /\ workers[i].current_df.out[r].Match_Type = "fuzzy_match"
              /\ ScoreLt(workers[i].current_df.out[r].Match_Score, Pct(100))
        /\ \E r \in Processed(workers[i]) :
              workers[i].current_df.out[r].Match_Type = "user_id_match"

\* the order of the cascade
StageRank(name) == IF name = "legacy" THEN 1 ELSE IF name = "current" THEN 2 ELSE 3

\* the stages were run in the order of the cascade, each after stages that
\* yielded no identifier only
InCascadeOrder(tried) ==
    /\ \A k \in 1..Len(tried) : tried[k].stage \in {"legacy", "current", "resigned"}
    /\ \A j, k \in 1..Len(tried) :
          j < k => /\ StageRank(tried[j].stage) < StageRank(tried[k].stage)
                   /\ IsNa(tried[j].employee_number)

\* the identifier as the row holds it: finalize_processing rewrites the column
\* with clean_pernr when the run stores its tables
AsRecorded(w, employee_number) ==
    IF w.cleaned THEN clean_pernr(employee_number) ELSE employee_number

\* the row holds what the stage returned
RecordedFrom(w, o, stage) ==
    /\ o.PERNR = AsRecorded(w, stage.employee_number)
    /\ o.Match_Type = stage.match_type
    /\ o.Match_Score = stage.match_score

\* C10: for every row the stages run are in the order legacy, current,
\* resigned; a stage is run only if all stages before it yielded no
\* identifier; and the identifier, match type and score recorded are those of
\* the first stage that yielded an identifier
C10_CascadeOrder ==
    \A i \in Threads : \A r \in Processed(workers[i]) :
        /\ InCascadeOrder(workers[i].trace[r].tried)
        /\ \A k \in 1..Len(workers[i].trace[r].tried) :
              NotNa(workers[i].trace[r].tried[k].employee_number) =>
                  RecordedFrom(workers[i], workers[i].current_df.out[r],
                               workers[i].trace[r].tried[k])

\* a row for which all three stages were run and only the last one yielded
\* an identifier, which the row holds
C10_Witness ==
    \E i \in Threads : \E r \in Processed(workers[i]) :
        /\ Len(workers[i].trace[r].tried) = 3
        /\ NotNa(workers[i].trace[r].tried[3].employee_number)
        /\ workers[i].current_df.out[r].PERNR
               = workers[i].trace[r].tried[3].employee_number
        /\ workers[i].current_df.out[r].Match_Type
               = workers[i].trace[r].tried[3].match_type

(***************************************************************************)
(* Properties of the application (Spec)                                    *)
(***************************************************************************)
\* the positions of a worker inside finalize_processing after its first
\* assignment, and after finalize_processing
FinalizeEntered == {"store_unmatched", "store_fuzzy", "finish", "completed"}

\* the result tables run i has assigned so far
AssignedBy(i) == {t \in DOMAIN published : published[t] = i}

\* C2: a run for which cancellation was requested while one of its per-row
\* checks was still ahead never executes finalize_processing and assigns none
\* of the three result tables
C2_CancelledRunPublishesNothing ==
    \A i \in Threads :
        workers[i].cancel_req =>
            /\ workers[i].pc \notin FinalizeEntered
            /\ AssignedBy(i) = {}

\* C3: the three result tables are always those of one and the same run (or
\* all three still unassigned)
C3_AllOrNothing ==
    /\ published.cleaned_data = published.unmatched_data
    /\ published.unmatched_data = published.fuzzy_matched_data

\* C4: at most one cleanup worker is active at any time
C4_AtMostOneActive ==
    Cardinality({i \in Threads : Active(workers[i])}) <= 1

(***************************************************************************)
(* Properties of the legacy lookup (SpecPipeline)                          *)
(***************************************************************************)
\* the rows of the worker's previous reference whose user id is that of row r
LegacyRows(w, r) ==
    IF ~w.has_previous_reference THEN {}
    ELSE {q \in 1..Len(w.previous_df.rows) :
             /\ NotNa(Cell(w.current_df, r, L_UserID))
             /\ Cell(w.previous_df, q, L_UserID) = Cell(w.current_df, r, L_UserID)}

\* the identifier cell of the first such row
LegacyCell(w, r) == Cell(w.previous_df, FirstOf(LegacyRows(w, r)), L_PERNR)

\* not null, not blank after trimming, not an invalid-indicator token
ValidIdentifier(v) ==
    /\ NotNa(v)
    /\ Strip(Str(v)) # <<>>
    /\ \A x \in InvalidIndicators : Lower(Strip(Str(v))) # Lower(x)

\* C11: when the legacy row matched by user id holds a valid value, the row's
\* identifier is that value trimmed, with 'user_id_match' and score 100, and
\* no name search is made; when the value is null, blank or an invalid
\* token, the step yields no identifier and the name search follows
C11_LegacyLookup ==
    \A i \in Threads : \A r \in Processed(workers[i]) :
        LegacyRows(workers[i], r) # {} =>
            IF ValidIdentifier(LegacyCell(workers[i], r))
            THEN /\ workers[i].current_df.out[r].PERNR
                       = AsRecorded(workers[i],
                                    StrV(Strip(Str(LegacyCell(workers[i], r)))))
                 /\ workers[i].current_df.out[r].Match_Type = "user_id_match"
                 /\ workers[i].current_df.out[r].Match_Score = Pct(100)
                 /\ Len(workers[i].trace[r].tried) = 1
            ELSE /\ workers[i].trace[r].tried[1].stage = "legacy"
                 /\ IsNa(workers[i].trace[r].tried[1].employee_number)
                 /\ workers[i].current_df.out[r].Match_Type # "user_id_match"
                 /\ UsableName(RowName(workers[i], r)) =>
                        /\ Len(workers[i].trace[r].tried) >= 2
                        /\ workers[i].trace[r].tried[2].stage = "current"

\* a row whose legacy value has surrounding blanks and is recorded trimmed,
\* beside a row whose legacy value is an invalid token in another case and
\* whose name was searched
C11_Witness ==
    \E i \in Threads : \E r, q \in Processed(workers[i]) :
        /\ LegacyRows(workers[i], r) # {}
        /\ ValidIdentifier(LegacyCell(workers[i], r))
        /\ Str(LegacyCell(workers[i], r)) # Strip(Str(LegacyCell(workers[i], r)))
        /\ workers[i].current_df.out[r].Match_Type = "user_id_match"
        /\ LegacyRows(workers[i], q) # {}
        /\ NotNa(LegacyCell(workers[i], q))
        /\ ~ValidIdentifier(LegacyCell(workers[i], q))
        /\ Len(workers[i].trace[q].tried) >= 2

(***************************************************************************)
(* Properties of the result tables (SpecPipeline)                          *)
(***************************************************************************)
\* the rows of a result table, each with its enrichment
Pairs(df) == [r \in 1..Len(df.rows) |-> [row |-> df.rows[r], out |-> df.out[r]]]

AbsentIdentifier(p) == IsNa(p.out.PERNR)
FuzzyMatched(p) == p.out.Match_Type = "fuzzy_match"

\* get_statistics: the rows of cleaned_data with an identifier
MatchedCount ==
    Cardinality({r \in EnrichedRows : NotNa(dataset.cleaned_data.out[r].PERNR)})

\* C12: after a completed run cleaned_data holds every row of the current
\* system table, unmatched_data exactly its rows without identifier and
\* fuzzy_matched_data exactly its rows of match type 'fuzzy_match', in order;
\* the two partitions share no row and matched + unmatched is the row count
C12_ResultPartitions ==
    SomeCompleted =>
        /\ dataset.cleaned_data.cols = dataset.current_system.cols
        /\ dataset.cleaned_data.rows = dataset.current_system.rows
        /\ Len(dataset.cleaned_data.out) = Len(dataset.current_system.rows)
        /\ Pairs(dataset.unmatched_data)
              = SelectSeq(Pairs(dataset.cleaned_data), AbsentIdentifier)
        /\ Pairs(dataset.fuzzy_matched_data)
              = SelectSeq(Pairs(dataset.cleaned_data), FuzzyMatched)
        /\ \A r \in EnrichedRows :
              ~(/\ AbsentIdentifier(Pairs(dataset.cleaned_data)[r])
                /\ FuzzyMatched(Pairs(dataset.cleaned_data)[r]))
        /\ MatchedCount + Len(dataset.unmatched_data.rows)
              = Len(dataset.cleaned_data.rows)

\* a completed run over two rows, one unmatched and one fuzzy-matched
C12_Witness ==
    /\ SomeCompleted
    /\ Len(dataset.cleaned_data.rows) = 2
    /\ Len(dataset.fuzzy_matched_data.rows) = 1
    /\ Len(dataset.unmatched_data.rows) = 1

(***************************************************************************)
(* Properties of the failure handling (Spec)                               *)
(***************************************************************************)
\* C13: a run that ended in the except branch of cleanup_worker, reporting a
\* failure, has assigned none of the three result tables: they hold what
\* they held before the run
C13_FailedRunPublishesNothing ==
    \A i \in Threads :
        workers[i].pc = "failed" => AssignedBy(i) = {}

\* C14: an internal failure of a lookup made for one row does not abort the
\* run: no run is ended by an exception raised in a row's lookups
C14_RowFailureDoesNotAbort ==
    \A i \in Threads :
        workers[i].row_error => workers[i].pc # "failed"

(***************************************************************************)
(* Termination and outcome of a run                                        *)
(***************************************************************************)
\* C15, outcome: a run never reports two different terminal outcomes, and a
\* run that has ended has reported one
C15_OneOutcome ==
    \A i \in Threads :
        /\ Cardinality(workers[i].reported) <= 1
        /\ workers[i].pc \in Terminated => workers[i].reported = {workers[i].pc}

\* the steps of cleanup thread i
WorkerStep(i) ==
    /\ i \in Threads
    /\ \/ WorkerBegin(i) \/ WorkerValidate(i) \/ WorkerDetect(i)
       \/ WorkerCheck(i) \/ WorkerCancelReset(i) \/ WorkerRow(i)
       \/ WorkerReport(i) \/ WorkerStoreCleaned(i) \/ WorkerStoreUnmatched(i)
       \/ WorkerStoreFuzzy(i) \/ WorkerFinish(i)

\* one session on loaded files, the cleanup section shown: runs are started,
\* cancelled and cleared while the cleanup threads advance
InitRun ==
    /\ engine = NewEngine
    /\ dataset = [NewDataset EXCEPT
                     !.current_system = UploadedFile.current_system,
                     !.previous_reference = UploadedFile.previous_reference,
                     !.masterlist_current = UploadedFile.masterlist_current,
                     !.masterlist_resigned = UploadedFile.masterlist_resigned]
    /\ cancel_flag = FALSE
    /\ ui = ShownCleanup(ShownPreview(NewUi, dataset))
    /\ after = <<>>
    /\ workers = <<>>
    /\ published = NonePublished
    /\ call = NoCall
    /\ ret = NoRet

NextRun ==
    \/ RunCleanup(TRUE, DefaultThreshold)
    \/ CancelCleanup
    \/ ClearAllFiles
    \/ RunAfter
    \/ \E i \in Threads : WorkerBegin(i)
    \/ \E i \in Threads : WorkerValidate(i)
    \/ \E i \in Threads : WorkerDetect(i)
    \/ \E i \in Threads : WorkerCheck(i)
    \/ \E i \in Threads : WorkerCancelReset(i)
    \/ \E i \in Threads : WorkerRow(i)
    \/ \E i \in Threads : WorkerReport(i)
    \/ \E i \in Threads : WorkerStoreCleaned(i)
    \/ \E i \in Threads : WorkerStoreUnmatched(i)
    \/ \E i \in Threads : WorkerStoreFuzzy(i)
    \/ \E i \in Threads : WorkerFinish(i)

\* thread i can take a step: every position before the end of cleanup_worker
\* has one
Running(i) == i \in Threads /\ Active(workers[i])

\* the threads are scheduled fairly: a cleanup thread that can take a step
\* eventually takes one (weak fairness of WorkerStep(i), whose enabling
\* condition is Running(i))
Scheduled(i) == []<>(~Running(i)) \/ []<><<WorkerStep(i)>>_vars

SpecRun == InitRun /\ [][NextRun]_vars /\ \A i \in 1..MaxRuns : Scheduled(i)

\* C15, termination: every started run reaches the end of cleanup_worker
C15_Terminates ==
    \A i \in 1..MaxRuns :
        [](i \in Threads => <>(i \in Threads /\ workers[i].pc \in Terminated))

(***************************************************************************)
(* The identifier from its source to the enriched table (SpecPipeline)     *)
(***************************************************************************)
\* the reference table a name stage searches
StageTable(w, stage) ==
    IF stage = "current" THEN w.masterlist_current_df ELSE w.masterlist_resigned_df

\* the rows of df whose name equals the given one after trimming and
\* lower-casing
EqualNamed(df, name) ==
    {q \in 1..Len(df.rows) :
        /\ NotNa(Cell(df, q, L_FullName))
        /\ Lower(Strip(Str(Cell(df, q, L_FullName)))) = Lower(Strip(Str(name)))}

\* the identifier cell of the first of them
EqualNamedId(df, name) == Cell(df, FirstOf(EqualNamed(df, name)), L_PERNR)

\* C16: the identifier a stage found is the source cell's text, trimmed and
\* otherwise verbatim, numeric or not: for the legacy lookup the cell of the
\* row matched by user id, for an exact name match the cell of the first row
\* of equal name
C16_IdentifierVerbatim ==
    \A i \in Threads : \A r \in Processed(workers[i]) :
        \A k \in 1..Len(workers[i].trace[r].tried) :
            /\ workers[i].trace[r].tried[k].match_type = "user_id_match" =>
                   workers[i].trace[r].tried[k].employee_number
                       = StrV(Strip(Str(LegacyCell(workers[i], r))))
            /\ (/\ workers[i].trace[r].tried[k].match_type = "exact_match"
                /\ NotNa(EqualNamedId(StageTable(workers[i],
                                                 workers[i].trace[r].tried[k].stage),
                                      RowName(workers[i], r))))
               => workers[i].trace[r].tried[k].employee_number
                      = StrV(Strip(Str(EqualNamedId(
                                 StageTable(workers[i],
                                            workers[i].trace[r].tried[k].stage),
                                 RowName(workers[i], r)))))

(***************************************************************************)
(* The settings of the engine (SpecFind)                                   *)
(***************************************************************************)
\* C17: after any sequence of update_settings calls the threshold is within
\* 50..100, it is 50 for a last argument below 50, 100 for one above 100 and
\* the argument itself otherwise, and the fuzzy flag is the last argument
C17_SettingsClamped ==
    /\ engine.threshold \in 50..100
    /\ ret.asked.made =>
          /\ ret.asked.threshold < 50 => engine.threshold = 50
          /\ ret.asked.threshold > 100 => engine.threshold = 100
          /\ ret.asked.threshold \in 50..100 =>
                 engine.threshold = ret.asked.threshold
          /\ engine.use_fuzzy_logic = ret.asked.use_fuzzy_logic

\* a call with a threshold above the range, disabling fuzzy matching, was the
\* last one before the search
C17_Witness ==
    /\ ret.called /\ ret.asked.made
    /\ ret.asked.threshold > 100 /\ ~ret.asked.use_fuzzy_logic
    /\ engine.threshold = 100 /\ ~engine.use_fuzzy_logic

(***************************************************************************)
(* DataSorter (models/data_sorter.py).  A list, or the column of a table   *)
(* with its row labels, is a sequence of cell values; the result of a sort *)
(* is the sequence of input positions in output order.                     *)
(***************************************************************************)
\* "pd.isna(x) or x == '' or x is None", then "not str(x).strip()"
IsBlank(x) == IsNa(x) \/ Strip(Str(x)) = <<>>

\* value.split('/') of a text with two slashes at s1 and s2; <<>> otherwise
SlashFields(t, s1, s2) ==
    IF s1 = 0 \/ s2 = 0 THEN <<>>
    ELSE <<SubSeq(t, 1, s1 - 1), SubSeq(t, s1 + 1, s2 - 1), SubSeq(t, s2 + 1, Len(t))>>

\* re.match(r'^\d{1,2}/\d{1,2}/\d{4}$', value)
MatchesDatePattern(f) ==
    /\ f # <<>>
    /\ AllDigits(f[1]) /\ Len(f[1]) \in 1..2
    /\ AllDigits(f[2]) /\ Len(f[2]) \in 1..2
    /\ AllDigits(f[3]) /\ Len(f[3]) = 4

\* 1 <= month <= 12 and 1 <= day <= 31 and 1900 <= year <= 2100
ValidDateFields(f) ==
    /\ MatchesDatePattern(f)
    /\ DigitsToNat(f[1]) \in 1..12
    /\ DigitsToNat(f[2]) \in 1..31
    /\ DigitsToNat(f[3]) \in 1900..2100

\* DataSorter._is_date_format on a stripped text
is_date_format(value) ==
    ValidDateFields(SlashFields(value, SlashAt(value, 1, 1), SlashAt(value, 1, 2)))

\* int(year) * 10000 + int(month) * 100 + int(day)
DateNumber(f) == DigitsToNat(f[3]) * 10000 + DigitsToNat(f[1]) * 100 + DigitsToNat(f[2])
date_value(value) ==
    DateNumber(SlashFields(value, SlashAt(value, 1, 1), SlashAt(value, 1, 2)))

\* float(value) for the numeric texts of the inputs: an optional sign and
\* decimal digits
Unsigned(t) == IF t # <<>> /\ Head(t) \in {"-", "+"} THEN Tail(t) ELSE t

\* DataSorter._is_numeric
is_numeric(value) == AllDigits(Unsigned(value))

FloatOf(value) ==
    IF Head(value) = "-" THEN 0 - DigitsToNat(Tail(value))
    ELSE DigitsToNat(Unsigned(value))

\* the counters of _detect_sort_type: the loop skips blank values and counts
\* a value as a date, else as a number
DateCount(series) ==
    Cardinality({i \in 1..Len(series) :
        ~IsBlank(series[i]) /\ is_date_format(Strip(Str(series[i])))})
NumericCount(series) ==
    Cardinality({i \in 1..Len(series) :
        /\ ~IsBlank(series[i])
        /\ ~is_date_format(Strip(Str(series[i])))
        /\ is_numeric(Strip(Str(series[i])))})

\* DataSorter._detect_sort_type: total_count = len(series);
\* date_count / total_count > 0.5, numeric_count / total_count > 0.7
detect_sort_type(series) ==
    IF series = <<>> THEN "string"
    ELSE IF 2 * DateCount(series) > Len(series) THEN "date"
    ELSE IF 10 * NumericCount(series) > 7 * Len(series) THEN "numeric"
    ELSE "string"

\* a sort key (priority, value): the value is a number n, an infinity
\* (inf = 1 or -1) or a text s
NumberKey(p, n) == [p |-> p, inf |-> 0, n |-> n, s |-> <<>>]
InfinityKey(p, sign) == [p |-> p, inf |-> sign, n |-> 0, s |-> <<>>]
TextKey(p, s) == [p |-> p, inf |-> 0, n |-> 0, s |-> s]

\* (1, float('inf')) if ascending else (0, float('-inf'))
LastNumberKey(ascending) ==
    IF ascending THEN InfinityKey(1, 1) ELSE InfinityKey(0, -1)

\* (1, "zzz") if ascending else (0, "")
LastTextKey(ascending) ==
    IF ascending THEN TextKey(1, <<"z","z","z">>) ELSE TextKey(0, <<>>)

\* date_key of _sort_by_date and _sort_list_by_date
date_key(x, ascending) ==
    IF IsBlank(x) THEN LastNumberKey(ascending)
    ELSE IF is_date_format(Strip(Str(x))) THEN NumberKey(0, date_value(Strip(Str(x))))
    ELSE LastNumberKey(ascending)

\* numeric_key of _sort_by_numeric and _sort_list_by_numeric
numeric_key(x, ascending) ==
    IF IsBlank(x) THEN LastNumberKey(ascending)
    ELSE IF is_numeric(Strip(Str(x))) THEN NumberKey(0, FloatOf(Strip(Str(x))))
    ELSE LastNumberKey(ascending)

\* string_key of _sort_by_string and _sort_list_by_string
string_key(x, ascending) ==
    IF IsBlank(x) THEN LastTextKey(ascending)
    ELSE TextKey(0, Lower(Strip(Str(x))))

\* the key function of the mode, applied to every value
SortKeys(data, sort_type, ascending) ==
    [i \in 1..Len(data) |->
        IF sort_type = "date" THEN date_key(data[i], ascending)
        ELSE IF sort_type = "numeric" THEN numeric_key(data[i], ascending)
        ELSE string_key(data[i], ascending)]

\* the characters of the inputs in code point order
CodeOrder == <<" ", "+", "-", "/">> \o DigitChars \o UpperChars \o LowerChars
CodePoint(c) == CHOOSE i \in 1..Len(CodeOrder) : CodeOrder[i] = c

\* a < b for str
RECURSIVE TextLt(_, _)
TextLt(a, b) ==
    IF b = <<>> THEN FALSE
    ELSE IF a = <<>> THEN TRUE
    ELSE IF Head(a) = Head(b) THEN TextLt(Tail(a), Tail(b))
    ELSE CodePoint(Head(a)) < CodePoint(Head(b))

\* a < b for the key tuples
KeyLt(a, b) ==
    \/ a.p < b.p
    \/ /\ a.p = b.p
       /\ \/ a.inf < b.inf
          \/ a.inf = b.inf /\ a.n < b.n
          \/ a.inf = b.inf /\ a.n = b.n /\ TextLt(a.s, b.s)

\* sorted(..., reverse=not ascending) puts position i before position j: by
\* key in the direction asked, equal keys in input order
SortsBefore(keys, ascending, i, j) ==
    IF KeyLt(keys[i], keys[j]) THEN ascending
    ELSE IF KeyLt(keys[j], keys[i]) THEN ~ascending
    ELSE i < j

RECURSIVE InsertSorted(_, _, _, _)
InsertSorted(order, keys, ascending, j) ==
    IF order = <<>> THEN <<j>>
    ELSE IF SortsBefore(keys, ascending, j, Head(order)) THEN <<j>> \o order
    ELSE <<Head(order)>> \o InsertSorted(Tail(order), keys, ascending, j)

\* sorted(data, key=..., reverse=not ascending) as positions: the sort is
\* stable in both directions
RECURSIVE StableOrder(_, _, _)
StableOrder(keys, ascending, n) ==
    IF n = 0 THEN <<>>
    ELSE InsertSorted(StableOrder(keys, ascending, n - 1), keys, ascending, n)

Sorted(sort_type, order) == [sort_type |-> sort_type, order |-> order]

SortListBy(data, sort_type, ascending) ==
    Sorted(sort_type,
           StableOrder(SortKeys(data, sort_type, ascending), ascending, Len(data)))

\* DataSorter.sort_list
sort_list(data, ascending) ==
    IF data = <<>> THEN Sorted("string", <<>>)
    ELSE SortListBy(data, detect_sort_type(data), ascending)

\* the longest input
MaxLen == 5

\* the orderings of n positions
RECURSIVE Orderings(_)
Orderings(S) ==
    IF S = {} THEN {<<>>}
    ELSE UNION {{<<x>> \o o : o \in Orderings(S \ {x})} : x \in S}
OrderingsOf == [n \in 0..MaxLen |-> Orderings(1..n)]

\* df.sort_values('_sort_key', ascending=ascending) with the default
\* kind='quicksort', which is not a stable sort: the rows are in key order
\* and rows of equal key are in any order
KeyOrders(keys, stable) ==
    {o \in OrderingsOf[Len(stable)] :
        \A i \in 1..Len(stable) : keys[o[i]] = keys[stable[i]]}

SortDataframeBy(data, sort_type, ascending) ==
    {Sorted(sort_type, o) :
        o \in KeyOrders(SortKeys(data, sort_type, ascending),
                        StableOrder(SortKeys(data, sort_type, ascending),
                                    ascending, Len(data)))}

\* DataSorter.sort_dataframe on a column of the table: the outcomes
sort_dataframe(data, ascending) ==
    SortDataframeBy(data, detect_sort_type(data), ascending)

(***************************************************************************)
(* DataSorter as a service: one list or column is sorted once, in either   *)
(* direction.                                                              *)
(***************************************************************************)
T_abc == <<"a","b","c">>
T_10 == <<"1","0">>

\* a missing value, a whitespace-only text, a date, a word, two numbers
SortValues == {NaN, StrV(T_blank), StrV(T_date), StrV(T_abc), StrV(T_10), IntV(9)}

SortInputs == UNION {[1..n -> SortValues] : n \in 0..MaxLen}

SortCalls == [data : SortInputs, ascending : BOOLEAN]

NotSorted == [called |-> FALSE, op |-> "none", sort_type |-> "string", order |-> <<>>]

InitSort ==
    /\ engine = NewEngine
    /\ dataset = NewDataset
    /\ cancel_flag = FALSE
    /\ ui = NewUi
    /\ after = <<>>
    /\ workers = <<>>
    /\ published = NonePublished
    /\ call \in SortCalls
    /\ ret = NotSorted

\* the history of a call: the operation, the mode and the order it produced
SortedAs(op, t) ==
    [called |-> TRUE, op |-> op, sort_type |-> t.sort_type, order |-> t.order]

\* DataSorter.sort_list
SortList ==
    /\ ~ret.called
    /\ ret' = SortedAs("sort_list", sort_list(call.data, call.ascending))
    /\ UNCHANGED <<engine, dataset, cancel_flag, ui, after, workers, published, call>>

\* DataSorter.sort_dataframe
SortDataframe ==
    /\ ~ret.called
    /\ \E t \in sort_dataframe(call.data, call.ascending) :
          ret' = SortedAs("sort_dataframe", t)
    /\ UNCHANGED <<engine, dataset, cancel_flag, ui, after, workers, published, call>>

NextSort == SortList \/ SortDataframe

SpecSort == InitSort /\ [][NextSort]_vars

(***************************************************************************)
(* Properties of the sorter (SpecSort)                                     *)
(***************************************************************************)
\* the values in output order
SortedValues == [i \in 1..Len(ret.order) |-> call.data[ret.order[i]]]

\* None, NaN, the empty text or a text of blanks only
BlankValue(v) == v.k = "nan" \/ (v.k = "str" /\ \A i \in 1..Len(v.s) : v.s[i] = " ")

\* C18: sort_list and sort_dataframe, in every mode and both directions,
\* place every blank value after every value that is not blank
C18_BlanksLast ==
    ret.called =>
        \A a, b \in 1..Len(ret.order) :
            (BlankValue(SortedValues[a]) /\ ~BlankValue(SortedValues[b])) => b < a

\* the values that are not blank
NonBlankValues == SelectSeq(call.data, LAMBDA v : ~BlankValue(v))

\* the mode decided from a sequence of values that are not blank: date if
\* more than half are dates, else numeric if more than 70% are numbers
ModeOf(values) ==
    IF 2 * Cardinality({i \in 1..Len(values) : is_date_format(Strip(Str(values[i])))})
          > Len(values)
    THEN "date"
    ELSE IF 10 * Cardinality({i \in 1..Len(values) : is_numeric(Strip(Str(values[i])))})
               > 7 * Len(values)
    THEN "numeric"
    ELSE "string"

\* C19: the sort mode is decided from the non-blank values only, so blank
\* values in the input never change it
C19_ModeFromNonBlank ==
    ret.called => ret.sort_type = ModeOf(NonBlankValues)

\* the keys of the input values in the mode and direction of the call
CallKeys == SortKeys(call.data, ret.sort_type, call.ascending)

\* the output is a permutation of the input
IsPermutation ==
    /\ Len(ret.order) = Len(call.data)
    /\ \A p \in 1..Len(call.data) : \E a \in 1..Len(ret.order) : ret.order[a] = p

\* values of equal key are in input order
IsStable ==
    \A a, b \in 1..Len(ret.order) :
        (a < b /\ CallKeys[ret.order[a]] = CallKeys[ret.order[b]])
            => ret.order[a] < ret.order[b]

\* C20: sort_list and sort_dataframe are stable in both directions and the
\* result is a permutation of the input
C20_StablePermutation ==
    ret.called => IsPermutation /\ IsStable

(***************************************************************************)
(* detect_lookup_columns as a service: the column roles of one pair of     *)
(* tables are resolved, and resolved once more.                            *)
(***************************************************************************)
L_pernr == <<"P","e","r","n","r">>
L_Paid == <<"P","a","i","d">>
L_SYSID == <<"S","Y","S","I","D">>
L_EmployeeNumber == <<"E","m","p","l","o","y","e","e"," ","N","u","m","b","e","r">>

\* the labels a table of the service is made of
DetectLabels == {L_UserID, L_PERNR, L_pernr, L_Paid, L_SYSID, L_EmployeeNumber, L_Name}

MaxCols == 3

\* the tables with at most n columns; the rows play no part
LabelTables(n) == {MkTable(cols, <<>>) : cols \in UNION {[1..m -> DetectLabels] : m \in 0..n}}

DetectCalls ==
    [current_df : LabelTables(MaxCols - 1),
     previous_df : {NoTable} \cup LabelTables(MaxCols)]

NoColumns == [user_id_current |-> NoCol, user_id_previous |-> NoCol, pernr_previous |-> NoCol]

NotDetected == [called |-> FALSE, again |-> FALSE, first |-> NoColumns, second |-> NoColumns]

InitDetect ==
    /\ engine = NewEngine
    /\ dataset = NewDataset
    /\ cancel_flag = FALSE
    /\ ui = NewUi
    /\ after = <<>>
    /\ workers = <<>>
    /\ published = NonePublished
    /\ call \in DetectCalls
    /\ ret = NotDetected

\* ProcessingController.detect_lookup_columns
DetectLookupColumns ==
    /\ ~ret.called
    /\ ret' = [ret EXCEPT !.called = TRUE,
                          !.first = detect_lookup_columns(call.current_df, call.previous_df)]
    /\ UNCHANGED <<engine, dataset, cancel_flag, ui, after, workers, published, call>>

\* detect_lookup_columns called again with the same tables
DetectAgain ==
    /\ ret.called /\ ~ret.again
    /\ ret' = [ret EXCEPT !.again = TRUE,
                          !.second = detect_lookup_columns(call.current_df, call.previous_df)]
    /\ UNCHANGED <<engine, dataset, cancel_flag, ui, after, workers, published, call>>

NextDetect == DetectLookupColumns \/ DetectAgain

SpecDetect == InitDetect /\ [][NextDetect]_vars

(***************************************************************************)
(* Properties of the column roles (SpecDetect)                             *)
(***************************************************************************)
\* the positions of the columns labelled exactly label
ExactAt(df, label) == {i \in 1..Len(df.cols) : df.cols[i] = label}

\* the positions of the columns whose lower-cased label contains a user-id
\* keyword
UserKeywordAt(df) ==
    {i \in 1..Len(df.cols) : \E keyword \in UserIdKeywords : Contains(Lower(df.cols[i]), keyword)}

\* the positions of the columns that qualify for the identifier role in the
\* second pass
PernrKeywordAt(df) ==
    {i \in 1..Len(df.cols) :
        \/ Upper(df.cols[i]) = L_PERNR
        \/ Contains(Lower(df.cols[i]), K_employee) /\ Contains(Lower(df.cols[i]), K_number)}

LeftMost(S) == CHOOSE i \in S : \A j \in S : i <= j

\* the two passes: the exact label wherever it stands, else the left-most
\* qualifying column, else none
TwoPass(df, label, exact, qualifying) ==
    IF IsNone(df) THEN NoCol
    ELSE IF exact # {} THEN label
    ELSE IF qualifying # {} THEN df.cols[LeftMost(qualifying)]
    ELSE NoCol

\* C21: each column role is resolved in two passes (exact label anywhere,
\* else the left-most qualifying label, else none), and resolving the same
\* tables again gives the same columns
C21_ColumnRoles ==
    /\ ret.called =>
          /\ ret.first.user_id_current =
                TwoPass(call.current_df, L_UserID,
                        ExactAt(call.current_df, L_UserID), UserKeywordAt(call.current_df))
          /\ ret.first.user_id_previous =
                TwoPass(call.previous_df, L_UserID,
                        ExactAt(call.previous_df, L_UserID), UserKeywordAt(call.previous_df))
          /\ ret.first.pernr_previous =
                TwoPass(call.previous_df, L_PERNR,
                        ExactAt(call.previous_df, L_PERNR), PernrKeywordAt(call.previous_df))
    /\ ret.again => ret.second = ret.first

\* the exact label stands right of a qualifying column in both tables, and
\* the roles were resolved twice
C21_Witness ==
    /\ ret.again
    /\ call.current_df.cols = <<L_Paid, L_UserID>>
    /\ call.previous_df.cols = <<L_pernr, L_SYSID, L_PERNR>>
    /\ ret.first.user_id_current = L_UserID
    /\ ret.first.user_id_previous = L_SYSID
    /\ ret.first.pernr_previous = L_PERNR

(***************************************************************************)
(* Names in reversed order: one run on a report of one row named           *)
(* "First Last" (or "Last, First") against a masterlist of current         *)
(* employees whose single row carries the other form of the same name.     *)
(***************************************************************************)
\* the name of the report's row and the name of the masterlist's row
NamePairs ==
    {<<SpaceJoin(a, b), CommaJoin(b, a)>> : a \in NameTokens, b \in NameTokens}
    \cup {<<CommaJoin(b, a), SpaceJoin(a, b)>> : a \in NameTokens, b \in NameTokens}

NameDatasets ==
    { [NewDataset EXCEPT
          !.current_system = MkTable(<<L_UserID, L_Name>>, << <<StrV(T_u1), StrV(p[1])>> >>),
          !.masterlist_current = MkTable(<<L_PERNR, L_FullName>>, << <<IntV(5), StrV(p[2])>> >>),
          !.masterlist_resigned = MkTable(<<L_PERNR, L_FullName, L_Date>>, <<>>)] :
        p \in NamePairs }

NameThresholds == {50, 80, 90}

InitName ==
    /\ engine = NewEngine
    /\ dataset \in NameDatasets
    /\ cancel_flag = FALSE
    /\ ui = ShownCleanup(ShownPreview(NewUi, dataset))
    /\ after = <<>>
    /\ workers = <<>>
    /\ published = NonePublished
    /\ call = NoCall
    /\ ret = NoRet

NextName ==
    \/ \E f \in BOOLEAN, t \in NameThresholds : RunCleanup(f, t)
    \/ \E i \in Threads : WorkerBegin(i)
    \/ \E i \in Threads : WorkerValidate(i)
    \/ \E i \in Threads : WorkerDetect(i)
    \/ \E i \in Threads : WorkerCheck(i)
    \/ \E i \in Threads : WorkerRow(i)
    \/ \E i \in Threads : WorkerReport(i)
    \/ \E i \in Threads : WorkerStoreCleaned(i)
    \/ \E i \in Threads : WorkerStoreUnmatched(i)
    \/ \E i \in Threads : WorkerStoreFuzzy(i)
    \/ \E i \in Threads : WorkerFinish(i)

SpecName == InitName /\ [][NextName]_vars

\* the name of the masterlist's row, as the fuzzy loop reads it
ListedName(w) == Lower(Strip(Str(Cell(w.masterlist_current_df, 1, L_FullName))))

\* C22: the similarity of "Last, First" and "First Last" is at least 90, and
\* with fuzzy matching enabled and a threshold of at most 90 the row ends
\* with the identifier of the masterlist's row and match type 'fuzzy_match'
C22_NameOrderInvariance ==
    \A i \in Threads : \A r \in Processed(workers[i]) :
        /\ ScoreLe(Pct(90), FinalScore(Lower(Strip(Str(RowName(workers[i], r)))),
                                       ListedName(workers[i])))
        /\ (/\ workers[i].trace[r].eng.use_fuzzy_logic
            /\ workers[i].trace[r].eng.threshold <= 90)
              => /\ workers[i].current_df.out[r].Match_Type = "fuzzy_match"
                 /\ workers[i].current_df.out[r].PERNR = AsRecorded(workers[i], StrV(<<"5">>))
                 /\ workers[i].current_df.out[r].Full_Name
                        = Cell(workers[i].masterlist_current_df, 1, L_FullName)

\* a completed run at threshold 80 with fuzzy matching enabled in which the
\* row named "Jared Ranjo" has the identifier '5' of "Ranjo, Jared"
C22_Witness ==
    \E i \in Threads :
        /\ workers[i].pc = "completed"
        /\ engine = [use_fuzzy_logic |-> TRUE, threshold |-> 80]
        /\ RowName(workers[i], 1) = StrV(SpaceJoin(T_Jared, T_Ranjo))
        /\ Cell(workers[i].masterlist_current_df, 1, L_FullName)
              = StrV(CommaJoin(T_Ranjo, T_Jared))
        /\ dataset.cleaned_data.out[1].PERNR = StrV(<<"5">>)
        /\ dataset.cleaned_data.out[1].Match_Type = "fuzzy_match"
        /\ Len(dataset.fuzzy_matched_data.rows) = 1

(***************************************************************************)
(* Properties of the progress reports (SpecPipeline)                       *)
(***************************************************************************)
ResultTables == {"cleaned_data", "unmatched_data", "fuzzy_matched_data"}

\* the run has neither reported a cancellation nor failed
Undisturbed(w) == "cancelled" \notin w.reported /\ "failed" \notin w.reported

\* the values are non-decreasing, within 0..100, and 100 is reported only
\* with the three result tables assigned
OrderedEvents(events) ==
    /\ \A k \in 1..Len(events) :
          /\ ScoreLe(Pct(0), events[k].value) /\ ScoreLe(events[k].value, Pct(100))
          /\ events[k].value = Pct(100) => events[k].assigned = ResultTables
    /\ \A k \in 1..(Len(events) - 1) : ScoreLe(events[k].value, events[k + 1].value)

\* 10, 20, one report per row, 95, 100
CompleteEvents(events, rows) ==
    /\ Len(events) = rows + 4
    /\ events[1].value = Pct(10)
    /\ events[2].value = Pct(20)
    /\ \A r \in 1..rows :
          /\ ScoreLe(Pct(20), events[2 + r].value)
          /\ ScoreLt(events[2 + r].value, Pct(95))
    /\ events[rows + 3].value = Pct(95)
    /\ events[rows + 4].value = Pct(100)

\* C23: a run that is neither cancelled nor failed reports 10, 20, one value
\* per processed row, 95 and 100 in this order; the values never decrease
\* and stay within 0..100; 100 is reported only after finalize_processing
\* has assigned the three result tables
C23_ProgressOrder ==
    \A i \in Threads :
        Undisturbed(workers[i]) =>
            /\ OrderedEvents(workers[i].events)
            /\ Len(workers[i].events) >= 2 =>
                  /\ workers[i].events[1].value = Pct(10)
                  /\ workers[i].events[2].value = Pct(20)
            /\ Len(workers[i].events) = Len(workers[i].trace)
                  + (IF workers[i].pc \in {"begin", "validate"} THEN 0
                     ELSE IF workers[i].pc = "detect" THEN 1
                     ELSE IF workers[i].pc \in {"check", "row", "report"} THEN 2
                     ELSE IF workers[i].pc = "completed" THEN 4 ELSE 3)
            /\ workers[i].pc = "completed" =>
                  CompleteEvents(workers[i].events, Len(workers[i].current_df.rows))

\* a completed run of two rows with its six reports
C23_Witness ==
    \E i \in Threads :
        /\ workers[i].pc = "completed"
        /\ Undisturbed(workers[i])
        /\ Len(workers[i].current_df.rows) = 2
        /\ Len(workers[i].events) = 6
        /\ workers[i].events[4].value = Pct(55)
        /\ workers[i].events[6] = [value |-> Pct(100), assigned |-> ResultTables]

(***************************************************************************)
(* Exact names across the cascade (SpecPipeline)                           *)
(***************************************************************************)
\* the rows of df whose name equals the given one and whose identifier is
\* numeric
ExactNumeric(df, name) ==
    {q \in EqualNamed(df, name) : NotNa(ToNumeric(Cell(df, q, L_PERNR)))}

\* the legacy lookup gave the row no identifier, so the names were searched
SearchedByName(t) ==
    /\ Len(t.tried) > 0
    /\ \A k \in 1..Len(t.tried) : t.tried[k].match_type # "user_id_match"

\* C24: a row whose name equals, trimmed and without regard to case, a name
\* with a numeric identifier in the current or in the resigned masterlist is
\* recorded as 'exact_match' and never as 'fuzzy_match' (stated for the
\* rows the legacy lookup left without identifier)
C24_ExactBeforeFuzzyAcrossTables ==
    \A i \in Threads : \A r \in Processed(workers[i]) :
        (/\ SearchedByName(workers[i].trace[r])
         /\ NotNa(RowName(workers[i], r))
         /\ \/ ExactNumeric(workers[i].masterlist_current_df, RowName(workers[i], r)) # {}
            \/ ExactNumeric(workers[i].masterlist_resigned_df, RowName(workers[i], r)) # {})
        => workers[i].current_df.out[r].Match_Type = "exact_match"

(***************************************************************************)
(* The source of the full name (SpecPipeline)                              *)
(***************************************************************************)
\* the reference table a source names
SourceTable(w, source) ==
    IF source = "Current Masterlist" THEN w.masterlist_current_df
    ELSE w.masterlist_resigned_df

\* some row of df carries the given name
NamedIn(df, full_name) ==
    /\ ~IsNone(df)
    /\ NameColumns(df) # <<>>
    /\ \E q \in 1..Len(df.rows) :
          /\ NotNa(Cell(df, q, NameColumns(df)[1]))
          /\ Strip(Str(Cell(df, q, NameColumns(df)[1]))) = Strip(Str(full_name))

\* C25: in every row of the enriched table the full-name source is present
\* exactly when the full name is, and then names the reference table the
\* recorded full name was taken from; no source outlives a full name that a
\* later stage replaced or cleared
C25_SourceWithName ==
    \A i \in Threads : \A r \in Processed(workers[i]) :
        /\ (workers[i].current_df.out[r].Full_Name_Source # "None")
              <=> NotNa(workers[i].current_df.out[r].Full_Name)
        /\ NotNa(workers[i].current_df.out[r].Full_Name) =>
              /\ workers[i].current_df.out[r].Full_Name_Source
                    \in {"Current Masterlist", "Resigned Masterlist"}
              /\ NamedIn(SourceTable(workers[i],
                                     workers[i].current_df.out[r].Full_Name_Source),
                         workers[i].current_df.out[r].Full_Name)

(***************************************************************************)
(* Reports that already carry a column of the enrichment: one run on a     *)
(* report with a third column labelled "Position", "PERNR" or              *)
(* "Department/Branch".                                                    *)
(***************************************************************************)
L_DepartmentBranch == NewLabels[9].label

ColumnTables ==
    { MkTable(<<L_UserID, L_Name, L_Position>>,
              << <<StrV(T_u1), StrV(T_AlBo), StrV(T_Teller)>> >>),
      MkTable(<<L_UserID, L_Name, L_PERNR>>,
              << <<StrV(T_u1), StrV(T_AlBo), IntV(4)>> >>),
      MkTable(<<L_UserID, L_Name, L_DepartmentBranch>>,
              << <<StrV(T_u2), StrV(T_alby), StrV(T_Teller)>> >>),
      MkTable(<<L_PERNR, L_UserID, L_Name>>,
              << <<IntV(4), StrV(T_u1), StrV(T_AlBo)>>,
                 <<NaN, StrV(T_u2), StrV(T_alby)>> >>) }

ColumnDatasets ==
    { [NewDataset EXCEPT !.current_system = c, !.previous_reference = p,
                         !.masterlist_current = m, !.masterlist_resigned = x] :
        c \in ColumnTables,
        p \in {NoTable, MkTable(<<L_UserID, L_PERNR>>, << <<StrV(T_u1), IntV(5)>> >>)},
        m \in CurrentLists, x \in ResignedLists }

InitColumns ==
    /\ engine = NewEngine
    /\ dataset \in ColumnDatasets
    /\ cancel_flag = FALSE
    /\ ui = ShownCleanup(ShownPreview(NewUi, dataset))
    /\ after = <<>>
    /\ workers = <<>>
    /\ published = NonePublished
    /\ call = NoCall
    /\ ret = NoRet

NextColumns ==
    \/ \E f \in BOOLEAN, t \in RunThresholds : RunCleanup(f, t)
    \/ \E i \in Threads : WorkerBegin(i)
    \/ \E i \in Threads : WorkerValidate(i)
    \/ \E i \in Threads : WorkerDetect(i)
    \/ \E i \in Threads : WorkerCheck(i)
    \/ \E i \in Threads : WorkerRow(i)
    \/ \E i \in Threads : WorkerReport(i)
    \/ \E i \in Threads : WorkerStoreCleaned(i)
    \/ \E i \in Threads : WorkerStoreUnmatched(i)
    \/ \E i \in Threads : WorkerStoreFuzzy(i)
    \/ \E i \in Threads : WorkerFinish(i)

SpecColumns == InitColumns /\ [][NextColumns]_vars

\* the table has the rows of the stored report, in order, with the values
\* of the report's columns
KeepsReport(df) ==
    /\ df.cols = dataset.current_system.cols
    /\ Len(df.rows) = Len(dataset.current_system.rows)
    /\ \A r \in 1..Len(df.rows) : \A c \in 1..Len(df.cols) :
          df.rows[r][c] = dataset.current_system.rows[r][c]

\* C26: the enriched table has one row per row of the current system table,
\* in the same order, and every column of the current system table keeps its
\* values in it, also when the report carries a column labelled like one of
\* the eleven new columns
C26_OriginalColumnsKept ==
    /\ \A i \in Threads :
          workers[i].pc \notin {"begin", "validate"} => KeepsReport(workers[i].current_df)
    /\ SomeCompleted => KeepsReport(dataset.cleaned_data)

(***************************************************************************)
(* The full name looked up by identifier (SpecPipeline)                    *)
(***************************************************************************)
\* the non-blank names of the rows of df whose identifier is numerically
\* equal to num
NamesByNumber(df, num) ==
    {Cell(df, q, L_FullName) : q \in
        {q \in 1..Len(df.rows) :
            /\ ToNumeric(Cell(df, q, L_PERNR)) = num
            /\ NotNa(Cell(df, q, L_FullName))
            /\ Strip(Str(Cell(df, q, L_FullName))) # <<>>}}

\* step 3 ran for the row: the cascade ended with an identifier of the
\* legacy lookup, which gives no name
StepThreeRan(t) ==
    /\ Len(t.tried) = 1
    /\ t.tried[1].match_type = "user_id_match"

\* C27: when step 3 runs and a reference table holds a row of numerically
\* equal identifier with a non-blank name, the recorded full name is such a
\* name, of the current masterlist if it has one, else of the resigned one
C27_FullNameByIdentifier ==
    \A i \in Threads : \A r \in Processed(workers[i]) :
        (/\ StepThreeRan(workers[i].trace[r])
         /\ NotNa(ToNumeric(workers[i].trace[r].tried[1].employee_number)))
        => /\ NamesByNumber(workers[i].masterlist_current_df,
                            ToNumeric(workers[i].trace[r].tried[1].employee_number)) # {}
              => workers[i].current_df.out[r].Full_Name
                    \in NamesByNumber(workers[i].masterlist_current_df,
                            ToNumeric(workers[i].trace[r].tried[1].employee_number))
           /\ (/\ NamesByNumber(workers[i].masterlist_current_df,
                            ToNumeric(workers[i].trace[r].tried[1].employee_number)) = {}
               /\ NamesByNumber(workers[i].masterlist_resigned_df,
                            ToNumeric(workers[i].trace[r].tried[1].employee_number)) # {})
              => workers[i].current_df.out[r].Full_Name
                    \in NamesByNumber(workers[i].masterlist_resigned_df,
                            ToNumeric(workers[i].trace[r].tried[1].employee_number))

(***************************************************************************)
(* Legacy rows of the same user id (SpecPipeline)                          *)
(***************************************************************************)
\* the rows of the previous reference with the user id of row r and a valid
\* identifier
ValidLegacyRows(w, r) ==
    {q \in LegacyRows(w, r) : is_valid_pernr(Cell(w.previous_df, q, L_PERNR))}

\* C28: the legacy lookup yields an identifier for a row whenever some row of
\* the previous reference has the row's user id and a valid identifier, also
\* when an earlier row of the same user id has an invalid or blank one
C28_LaterValidLegacyRow ==
    \A i \in Threads : \A r \in Processed(workers[i]) :
        ValidLegacyRows(workers[i], r) # {}
            => /\ Len(workers[i].trace[r].tried) > 0
               /\ workers[i].trace[r].tried[1].stage = "legacy"
               /\ workers[i].trace[r].tried[1].match_type = "user_id_match"
               /\ \E q \in ValidLegacyRows(workers[i], r) :
                     workers[i].trace[r].tried[1].employee_number
                         = StrV(Strip(Str(Cell(workers[i].previous_df, q, L_PERNR))))

(***************************************************************************)
(* Cancelling a run (SpecCancel).  cancel_cleanup is two statements of the *)
(* interactive thread, the assignment of the flag and the status report,   *)
(* and the cleanup thread is scheduled between any two statements; here    *)
(* each statement is a step of its own.  While the interactive thread is   *)
(* inside cancel_cleanup it handles no other event.                        *)
(***************************************************************************)
\* the interactive thread between line 35 and line 36 of cancel_cleanup
InCancel == [op |-> "cancel_cleanup", line |-> 36]

\* ProcessingController.cancel_cleanup, line 35: self.cancel_flag = True
CancelFlag ==
    /\ call = NoCall
    /\ \E i \in Threads : Active(workers[i])
    /\ cancel_flag' = TRUE
    /\ workers' = Requested(workers)
    /\ call' = InCancel
    /\ UNCHANGED <<engine, dataset, ui, after, published, ret>>

\* ProcessingController.cancel_cleanup, line 36: the status report
CancelReport ==
    /\ call = InCancel
    /\ ui' = update_progress(ui, Pct(0), "Cancelling cleanup process...")
    /\ call' = NoCall
    /\ UNCHANGED <<engine, dataset, cancel_flag, after, workers, published, ret>>

\* a click on the run button, handled by the event loop
ClickRun == call = NoCall /\ RunCleanup(TRUE, DefaultThreshold)

\* the event loop runs a queued callback
IdleAfter == call = NoCall /\ RunAfter

NextCancel ==
    \/ ClickRun
    \/ CancelFlag
    \/ CancelReport
    \/ IdleAfter
    \/ \E i \in Threads : WorkerBegin(i)
    \/ \E i \in Threads : WorkerValidate(i)
    \/ \E i \in Threads : WorkerDetect(i)
    \/ \E i \in Threads : WorkerCheck(i)
    \/ \E i \in Threads : WorkerCancelReset(i)
    \/ \E i \in Threads : WorkerRow(i)
    \/ \E i \in Threads : WorkerReport(i)
    \/ \E i \in Threads : WorkerStoreCleaned(i)
    \/ \E i \in Threads : WorkerStoreUnmatched(i)
    \/ \E i \in Threads : WorkerStoreFuzzy(i)
    \/ \E i \in Threads : WorkerFinish(i)

SpecCancel == InitRun /\ [][NextCancel]_vars

\* run i was cancelled, it is the last run started, every thread has ended and
\* the interactive thread is not inside cancel_cleanup
CancelledAtRest(i) ==
    /\ i = Len(workers)
    /\ workers[i].pc = "cancelled"
    /\ \A j \in Threads : ~Active(workers[j])
    /\ call = NoCall

\* start_cleanup clears the flag, and only cancel_cleanup sets it, while a
\* cleanup thread is running
FlagOfThisRun ==
    /\ Len(workers') > Len(workers) => ~cancel_flag'
    /\ (~cancel_flag /\ cancel_flag') =>
           /\ call' = InCancel
           /\ \E i \in Threads : Active(workers[i])

\* C29: the last status delivered for a cancelled run is 'Cleanup cancelled by
\* user', under every interleaving of cancel_cleanup's two statements with the
\* cleanup thread, and a cancel flag left set by a finished run never cancels
\* the next run
C29_CancelledStatusLast ==
    /\ [](\A i \in Threads :
             CancelledAtRest(i) => ui.status = "Cleanup cancelled by user")
    /\ [][FlagOfThisRun]_vars

\* the second half of C29 alone
C29_FlagOfThisRun == [][FlagOfThisRun]_vars

(***************************************************************************)
(* Clearing while a cleanup thread is running (Spec)                       *)
(***************************************************************************)
\* the attributes of the dataset that finalize_processing assigns
ResultAttributes == {"cleaned_data", "unmatched_data", "fuzzy_matched_data"}

\* C30: once the dataset has been cleared, cleaned_data, unmatched_data and
\* fuzzy_matched_data stay None until a new run is started, also when a
\* cleanup thread was still running at the clear: in every state, a result
\* table that is not None comes with a current system report that is not None
C30_ResultsClearedStayCleared ==
    \A t \in ResultAttributes :
        ~IsNone(dataset[t]) => ~IsNone(dataset.current_system)
=============================================================================
